---- MODULE Spec2Model ----
(***************************************************************************)
(* Verification model of regrada's capture-and-regression pipeline:        *)
(*   - the recording proxies (internal/record forward + reverse recorder,  *)
(*     legacy proxy.LLMProxy), their Session and the `regrada record` run;  *)
(*   - the day-partitioned LocalStore (internal/trace): Append, List, Read; *)
(*   - baseline.Key, baseline.FromResult, diff.Diff;                        *)
(*   - config validation, policy.Evaluate, report.BuildSummary;             *)
(*   - trace.RegexRedactor and the headers of persisted traces;             *)
(*   - the stop-after limit of the recorders.                               *)
(* Each part has its own specification over the shared variable tuple; the  *)
(* variables a specification does not use keep their idle value.            *)
(***************************************************************************)
EXTENDS Integers, Sequences, FiniteSets, TLC

VARIABLES
    \* ---- recording proxies (SpecProxy) ----
    mode,         \* "forward" | "reverse" | "legacy": which recorder serves
    AllowHosts,   \* cfg.Capture.Proxy.AllowHosts as configured
    upstreamSet,  \* reverse recorder: an upstream base URL is configured
    req,          \* per connection slot: the handler goroutine's state
    store,        \* trace ids whose store.Append succeeded, in append order
    appendErrs,   \* trace ids whose store.Append returned an error
    TraceIDs,     \* Session.TraceIDs
    count,        \* recorder.count
    traces,       \* LLMProxy.traces
    run,          \* `regrada record -- cmd`: "running" | "ok" | "error"
    \* ---- LocalStore: Append / List / Read (SpecStore) ----
    baseDir,      \* the store directory exists
    files,        \* day partition -> lines of <day>/traces.jsonl
    appended,     \* the traces whose Append returned nil, in call order
    listed,       \* the List/Read call made last, if no other call followed:
                  \* its filter and what it returned
    \* ---- LocalStore.Append under concurrency (SpecAppend) ----
    mu,           \* LocalStore.mu: 0 or the goroutine holding it
    disk,         \* day partition -> the chunks written to traces.jsonl
    app,          \* per goroutine: its Append call
    \* ---- baseline.Key (SpecKey) ----
    call,         \* two Key calls: their arguments as Go values, their results
    \* ---- baseline.FromResult and diff.Diff (SpecDiff) ----
    result,       \* an eval.CaseResult
    base,         \* the baseline.Baseline built by FromResult, if any
    delta,        \* the diff.DiffResult of Diff(result, base), if any
    \* ---- config validation and policy.Evaluate (SpecPolicy) ----
    policies,     \* cfg.Policies
    loaded,       \* LoadProjectConfig: "raw" (not yet validated) | "ok" | "error"
    evald,        \* the Evaluate call made, if any: its arguments and result
    \* ---- runTest's case statuses and report.BuildSummary (SpecSummary) ----
    summaries,    \* runTest's summaries: one report.CaseSummary per case run
    statuses,     \* the status line printed for each case run
    summary,      \* the report.RunSummary, once built
    suite,        \* "running" while runTest is in its loop
    \* ---- trace.RegexRedactor (SpecRedact) ----
    redactor,     \* the patterns of the RegexRedactor
    rtrace,       \* the trace, as the last Apply left it
    rbefore,      \* the trace as it was handed to the last Apply
    rapplied,     \* the names the last Apply returned
    rcount,       \* the Apply calls made on the trace
    \* ---- request headers in persisted traces (SpecHeaders) ----
    hreq,         \* req.Header of the captured request
    hredact,      \* capture.redact.enabled
    hstored,      \* the traces persisted
    hpc,          \* "request" until the trace of the request is persisted
    \* ---- the stop-after limit (SpecStop, SpecRecord) ----
    recorderMode,    \* the recorder in use: "forward" | "reverse"
    recordStopAfter, \* cmd/record.go: the value of --stop-after
    stopAfter,       \* ProxyRecorder.stopAfter
    recCount,        \* the recorder's count
    recorded,        \* the traces recorded so far
    conn,            \* per handler goroutine: its place in handle
    recMu,           \* ProxyRecorder.mu: 0 or the handler holding it
    stopTasks,       \* the Stop calls made, each a task: where it is
    server,          \* "serving" | "shutdown" (listener closed, draining) | "closed"
    done,            \* ProxyRecorder.done is closed
    \* ---- the commands baseline and test (SpecCmd) ----
    projectCfg,      \* the project configuration the commands load
    caseList,        \* the cases DiscoverCases returns
    snapshots,       \* the files of the snapshot directory, by path
    command,         \* the command running: its loop index, its exit code
    \* ---- the recording session (SpecSession, SpecFinalize) ----
    session,         \* the record.Session of the recording
    savedSession,    \* the session file SaveSession wrote
    recordMain,      \* where runRecord is: "waiting" | "stopping" | ... | "exited"
    \* ---- request and response parsing (SpecParse) ----
    parsed           \* the body given to the parser and what it returned

pvars == <<mode, AllowHosts, upstreamSet, req, store, appendErrs, TraceIDs, count, traces, run>>

cfgv == <<mode, AllowHosts, upstreamSet>>

svars == <<baseDir, files, appended, listed>>

avars == <<mu, disk, app>>

kvars == <<call>>

dvars == <<result, base, delta>>

\* the variables of the specifications of the test pipeline
evars == <<policies, loaded, evald>>

rvars == <<summaries, statuses, summary, suite>>

tvars == <<redactor, rtrace, rbefore, rapplied, rcount>>

hvars == <<hreq, hredact, hstored, hpc>>

\* the variables of the stop-after specifications
ovars == <<recorderMode, recordStopAfter, stopAfter, recCount, recorded, conn, recMu,
           stopTasks, server, done>>

\* the variables the stop-after specifications leave alone
testvars == <<dvars, evars, rvars, tvars, hvars>>

\* the variables of the commands baseline and test
cvars == <<projectCfg, caseList, snapshots, command>>

\* the variables the command specification leaves alone
\* the variables of the session specifications
fvars == <<session, savedSession, recordMain>>

\* the variable of the parsing specification
qvars == <<parsed>>

notCmd == <<fvars, qvars>>

notSession == <<cvars, qvars>>

notParse == <<cvars, fvars>>

\* the variables of the specifications of the commands, the session and the
\* parsers
nvars == <<cvars, fvars, qvars>>

xvars == <<testvars, ovars, nvars>>

\* the variables the proxy specification leaves alone
others == <<svars, avars, kvars, xvars>>

vars == <<pvars, svars, avars, kvars, xvars>>

\* ------------------------------------------------------------------------
\* Bounds
\* ------------------------------------------------------------------------
MaxReq == 2

Slots == 1..MaxReq

\* timestamps are 1..MaxTs; DayLen consecutive timestamps share a UTC day
MaxTs == 3

DayLen == 2

\* Append calls and corrupted lines per store run
MaxAppend == 2

MaxBad == 1

\* goroutines calling Append concurrently
MaxWriters == 3

\* runs of a case result
MaxRuns == 2

\* policies of a configuration
MaxPolicies == 2

\* cases of a test suite
MaxCases == 2

\* messages of a trace's request
MaxMessages == 1

\* handler goroutines of the reverse recorder, one request each
MaxHandlers == 3

\* the stop-after limit
MaxStopAfter == 2

\* the greatest trace id of a session, and the AddTrace calls that are made
MaxIDs == 2

MaxAdds == 3

\* ------------------------------------------------------------------------
\* Host strings.  A host string is <<name, port>>; port "" means that the
\* string has no ":port" suffix ("api.openai.com" is <<"api.openai.com","">>,
\* "api.openai.com:443" is <<"api.openai.com","443">>).
\* ------------------------------------------------------------------------
Names == {"api.openai.com", "API.OpenAI.com", "example.org"}

NoPort == ""

Ports == {"443"}

\* strings.ToLower on a host name
LowerName(n) == IF n = "API.OpenAI.com" THEN "api.openai.com" ELSE n

\* strings.ToLower on a host string (digits and ':' are unchanged)
ToLower(h) == <<LowerName(h[1]), h[2]>>

\* url.URL.Hostname(): the host without any port
Hostname(h) == <<h[1], NoPort>>

\* hostMatcher.allowHosts: the keys of the map built by newHostMatcher
newHostMatcher(hosts) == {ToLower(h) : h \in hosts}

isAllowed(m, h) == ToLower(h) \in m

matcher == newHostMatcher(AllowHosts)

\* the allow-list files a user can write: bare host names as in the README,
\* any letter case, optionally also the host:port form
AllowConfigs ==
    { {<<"api.openai.com", NoPort>>},
      {<<"API.OpenAI.com", NoPort>>},
      {<<"api.openai.com", "443">>},
      {<<"api.openai.com", NoPort>>, <<"api.openai.com", "443">>} }

\* ------------------------------------------------------------------------
\* Recording proxies
\* ------------------------------------------------------------------------
NoCapture == 0

NilResp == "nil"

\* util.NewID(): a fresh id per capture; the slot number stands for it
NewID(r) == r

IdleReq ==
    [pc |-> "idle", kind |-> "none", host |-> <<"example.org", NoPort>>,
     act |-> "none", capture |-> NoCapture, resp |-> NilResp,
     ids |-> <<>>, n |-> 0, out |-> "none"]

Modes == {"forward", "reverse", "legacy"}

InitProxy ==
    /\ mode \in Modes
    /\ AllowHosts \in (IF mode = "forward" THEN AllowConfigs ELSE {{}})
    /\ upstreamSet \in (IF mode = "reverse" THEN BOOLEAN ELSE {TRUE})
    /\ req = [r \in Slots |-> IdleReq]
    /\ store = <<>>
    /\ appendErrs = {}
    /\ TraceIDs = <<>>
    /\ count = 0
    /\ traces = <<>>
    /\ run = "running"

\* A client opens a connection to the proxy: a CONNECT (always host:port) or
\* a plain HTTP request (absolute URL, port optional).
Arrive(r) ==
    /\ run = "running"
    /\ req[r].pc = "idle"
    /\ \/ /\ mode = "forward"
          /\ \E k \in {"connect", "plain"}, nm \in Names, p \in Ports \cup {NoPort} :
                /\ k = "connect" => p # NoPort
                /\ req' = [req EXCEPT ![r].kind = k, ![r].host = <<nm, p>>,
                                      ![r].pc = IF k = "connect" THEN "connect" ELSE "request"]
       \/ /\ mode # "forward"
          /\ req' = [req EXCEPT ![r].kind = "plain", ![r].pc = "handle"]
    /\ UNCHANGED <<cfgv, store, appendErrs, TraceIDs, count, traces, run, others>>

\* The CONNECT hook's decision: goproxy hands it the CONNECT target, host:port.
ConnectAction(m, host) == IF isAllowed(m, host) THEN "mitm" ELSE "tunnel"

\* setupProxy's HandleConnect hook
HandleConnect(r) ==
    /\ req[r].pc = "connect"
    /\ LET a == ConnectAction(matcher, req[r].host)
       IN  req' = [req EXCEPT ![r].act = a,
                              ![r].pc = IF a = "mitm" THEN "request" ELSE "tunnel"]
    /\ UNCHANGED <<cfgv, store, appendErrs, TraceIDs, count, traces, run, others>>

\* goproxy.OkConnect: 200 Connection Established, bytes copied both ways; no
\* request or response hook runs for the tunnelled traffic
Tunnel(r) ==
    /\ req[r].pc = "tunnel"
    /\ req' = [req EXCEPT ![r].pc = "done", ![r].out = "relayed"]
    /\ UNCHANGED <<cfgv, store, appendErrs, TraceIDs, count, traces, run, others>>

\* the host handleRequest looks up: req.URL.Hostname(), or req.Host if empty
RequestHost(h) == IF Hostname(h)[1] = "" THEN h ELSE Hostname(h)

\* the mutation of CaptureFor that makes a capture context for every host
CaptureAlways(m, r, h) == NewID(r)

\* handleRequest's ctx.UserData: a capture context for allow-listed hosts only
CaptureFor(m, r, h) == IF ~isAllowed(m, RequestHost(h)) THEN NoCapture ELSE NewID(r)

\* ForwardProxyRecorder.handleRequest (plain requests and requests decrypted
\* inside a MITM'd tunnel)
HandleRequest(r) ==
    /\ req[r].pc = "request"
    /\ req' = [req EXCEPT ![r].capture = CaptureFor(matcher, r, req[r].host),
                          ![r].pc = "roundtrip"]
    /\ UNCHANGED <<cfgv, store, appendErrs, TraceIDs, count, traces, run, others>>

\* goproxy's upstream round trip.  On failure of a plain request goproxy sets
\* ctx.Error and still runs the response hooks, with a nil response; for a
\* MITM'd request it ends the connection (writing a 502 in newer releases)
\* without running them.
RoundTrip(r) ==
    /\ req[r].pc = "roundtrip"
    /\ \/ req' = [req EXCEPT ![r].resp = "ok", ![r].pc = "response"]
       \/ /\ req[r].kind = "plain"
          /\ req' = [req EXCEPT ![r].resp = NilResp, ![r].pc = "response"]
       \/ /\ req[r].kind = "connect"
          /\ \E o \in {"closed", "gateway_error"} :
                req' = [req EXCEPT ![r].resp = NilResp, ![r].pc = "done", ![r].out = o]
    /\ UNCHANGED <<cfgv, store, appendErrs, TraceIDs, count, traces, run, others>>

EmptyID == 0

\* What handleResponse does with (ctx.UserData, resp):
\*   "pass"   no capture context: the response is returned untouched
\*   "panic"  capture context present and resp == nil: resp.StatusCode
\*            dereferences nil (forward.go:150)
\*   "record" the trace is built and appended
ResponseStep(capture, resp) ==
    IF capture = NoCapture THEN "pass"
    ELSE IF resp = NilResp THEN "panic"
    ELSE "record"

\* ForwardProxyRecorder.handleResponse up to `_ = r.store.Append(tr)`; the
\* Append's error is discarded.  A nil response that the hook passes through
\* makes goproxy answer with http.Error; a panic in the hook is recovered by
\* net/http, which drops the connection without writing a response.
HandleResponse(r) ==
    /\ req[r].pc = "response"
    /\ LET step == ResponseStep(req[r].capture, req[r].resp) IN
       \/ /\ step = "pass"
          /\ req' = [req EXCEPT ![r].pc = "done",
                         ![r].out = IF req[r].resp = NilResp THEN "gateway_error" ELSE "response"]
          /\ UNCHANGED <<store, appendErrs>>
       \/ /\ step = "panic"
          /\ req' = [req EXCEPT ![r].pc = "done", ![r].out = "aborted"]
          /\ UNCHANGED <<store, appendErrs>>
       \/ /\ step = "record"
          /\ req' = [req EXCEPT ![r].pc = "addtrace"]
          /\ \E ok \in BOOLEAN :
                IF ok THEN /\ store' = Append(store, req[r].capture)
                           /\ UNCHANGED appendErrs
                      ELSE /\ appendErrs' = appendErrs \cup {req[r].capture}
                           /\ UNCHANGED store
    /\ UNCHANGED <<cfgv, TraceIDs, count, traces, run, others>>

\* Session.AddTrace: `s.TraceIDs = append(s.TraceIDs, id)` with no lock held:
\* the slice is read ...
AddTraceRead(r) ==
    /\ req[r].pc = "addtrace"
    /\ req' = [req EXCEPT ![r].ids = TraceIDs, ![r].pc = "addtrace_w"]
    /\ UNCHANGED <<cfgv, store, appendErrs, TraceIDs, count, traces, run, others>>

\* the value AddTrace stores back, from the slice it read
AddTrace(ids, id) == IF id = EmptyID THEN ids ELSE Append(ids, id)

\* ... and the extended slice is stored back
AddTraceWrite(r) ==
    /\ req[r].pc = "addtrace_w"
    /\ TraceIDs' = AddTrace(req[r].ids, req[r].capture)
    /\ req' = [req EXCEPT ![r].ids = <<>>, ![r].pc = "count"]
    /\ UNCHANGED <<cfgv, store, appendErrs, count, traces, run, others>>

\* forward recorder: `r.count++`, unsynchronised (read, then write back);
\* reverse recorder: incrementCount, under r.mu
CountRead(r) ==
    /\ req[r].pc = "count"
    /\ IF mode = "forward"
         THEN /\ req' = [req EXCEPT ![r].n = count, ![r].pc = "count_w"]
              /\ UNCHANGED count
         ELSE /\ count' = count + 1
              /\ req' = [req EXCEPT ![r].pc = "done", ![r].out = "response"]
    /\ UNCHANGED <<cfgv, store, appendErrs, TraceIDs, traces, run, others>>

CountWrite(r) ==
    /\ req[r].pc = "count_w"
    /\ count' = req[r].n + 1
    /\ req' = [req EXCEPT ![r].n = 0, ![r].pc = "done", ![r].out = "response"]
    /\ UNCHANGED <<cfgv, store, appendErrs, TraceIDs, traces, run, others>>

\* ProxyRecorder.handle up to proxy.ServeHTTP: resolveUpstream fails with
\* "no upstream configured" -> 502
ReverseHandle(r) ==
    /\ mode = "reverse"
    /\ req[r].pc = "handle"
    /\ IF upstreamSet
         THEN req' = [req EXCEPT ![r].pc = "serve"]
         ELSE req' = [req EXCEPT ![r].pc = "done", ![r].out = "gateway_error"]
    /\ UNCHANGED <<cfgv, store, appendErrs, TraceIDs, count, traces, run, others>>

\* httputil.ReverseProxy.ServeHTTP: on a transport error the ErrorHandler
\* answers 502 and ModifyResponse is not called; on a response ModifyResponse
\* builds the trace (fresh id) and appends it, discarding Append's error
ReverseServe(r) ==
    /\ req[r].pc = "serve"
    /\ \/ /\ req' = [req EXCEPT ![r].resp = NilResp, ![r].pc = "done", ![r].out = "gateway_error"]
          /\ UNCHANGED <<store, appendErrs>>
       \/ /\ req' = [req EXCEPT ![r].resp = "ok", ![r].capture = NewID(r), ![r].pc = "addtrace"]
          /\ \E ok \in BOOLEAN :
                IF ok THEN /\ store' = Append(store, NewID(r))
                           /\ UNCHANGED appendErrs
                      ELSE /\ appendErrs' = appendErrs \cup {NewID(r)}
                           /\ UNCHANGED store
    /\ UNCHANGED <<cfgv, TraceIDs, count, traces, run, others>>

\* LLMProxy.handleRequest: body read error / request build error -> 500;
\* executeProxyRequest error -> 502; otherwise the trace is appended to
\* p.traces under p.mu and the response is written
LegacyOutcome(bodyOk, buildOk, respOk) ==
    IF ~bodyOk \/ ~buildOk THEN "internal_error"
    ELSE IF ~respOk THEN "gateway_error"
    ELSE "response"

LegacyHandle(r) ==
    /\ mode = "legacy"
    /\ req[r].pc = "handle"
    /\ \E bodyOk \in BOOLEAN, buildOk \in BOOLEAN, respOk \in BOOLEAN :
          LET o == LegacyOutcome(bodyOk, buildOk, respOk) IN
          /\ req' = [req EXCEPT ![r].pc = "done", ![r].out = o,
                         ![r].resp = IF respOk /\ bodyOk /\ buildOk THEN "ok" ELSE NilResp,
                         ![r].capture = IF o = "response" THEN NewID(r) ELSE NoCapture]
          /\ traces' = IF o = "response" THEN Append(traces, NewID(r)) ELSE traces
    /\ UNCHANGED <<cfgv, store, appendErrs, TraceIDs, count, run, others>>

\* the values of a sequence
Range(s) == {s[i] : i \in 1..Len(s)}

\* a set of ids as an ascending sequence
RECURSIVE SortedSeq(_)
SortedSeq(S) ==
    IF S = {} THEN <<>>
    ELSE LET m == CHOOSE x \in S : \A y \in S : x <= y
         IN  <<m>> \o SortedSeq(S \ {m})

\* the loop of uniqueSorted from index i: an id that is empty or was seen
\* is skipped
RECURSIVE uniqueFrom(_, _, _, _)
uniqueFrom(values, i, seen, out) ==
    IF i > Len(values) THEN out
    ELSE IF values[i] = EmptyID \/ values[i] \in seen
           THEN uniqueFrom(values, i + 1, seen, out)
    ELSE uniqueFrom(values, i + 1, seen \cup {values[i]}, Append(out, values[i]))

\* sort.Strings: the elements of the slice in ascending order, each as
\* often as it was there
RECURSIVE SortStrings(_)
SortStrings(out) ==
    IF out = <<>> THEN <<>>
    ELSE LET i == CHOOSE k \in 1..Len(out) :
                     /\ \A j \in 1..Len(out) : out[k] <= out[j]
                     /\ \A j \in 1..(k - 1) : out[j] # out[k]
         IN  <<out[i]>> \o SortStrings(SubSeq(out, 1, i - 1) \o SubSeq(out, i + 1, Len(out)))

\* the mutation of uniqueSorted that leaves the ids in the order of arrival
uniqueUnsorted(values) == uniqueFrom(values, 1, {}, <<>>)

\* record.uniqueSorted: drop empty and repeated ids, sort
uniqueSorted(values) == SortStrings(uniqueFrom(values, 1, {}, <<>>))

\* runWithProxy after command.Wait(): Stop, Session.Finalize, SaveSession,
\* "Recorded N traces"; the result is an error only if the session could not
\* be saved or the command itself failed
RunResult(saveOk, cmdOk) == IF saveOk /\ cmdOk THEN "ok" ELSE "error"

Finish ==
    /\ run = "running"
    /\ mode # "legacy"
    /\ TraceIDs' = uniqueSorted(TraceIDs)
    /\ \E saveOk \in BOOLEAN, cmdOk \in BOOLEAN : run' = RunResult(saveOk, cmdOk)
    /\ UNCHANGED <<cfgv, req, store, appendErrs, count, traces, others>>

NextProxy ==
    \/ \E r \in Slots : Arrive(r)
    \/ \E r \in Slots : HandleConnect(r)
    \/ \E r \in Slots : Tunnel(r)
    \/ \E r \in Slots : HandleRequest(r)
    \/ \E r \in Slots : RoundTrip(r)
    \/ \E r \in Slots : HandleResponse(r)
    \/ \E r \in Slots : AddTraceRead(r)
    \/ \E r \in Slots : AddTraceWrite(r)
    \/ \E r \in Slots : CountRead(r)
    \/ \E r \in Slots : CountWrite(r)
    \/ \E r \in Slots : ReverseHandle(r)
    \/ \E r \in Slots : ReverseServe(r)
    \/ \E r \in Slots : LegacyHandle(r)
    \/ Finish


\* ------------------------------------------------------------------------
\* LocalStore (internal/trace): Append, List, Read
\* ------------------------------------------------------------------------
ZeroTime == 0

NoTime == 0

Times == 1..MaxTs

\* t.Timestamp.Format("2006-01-02"): the day partition of a timestamp
DateDir(ts) == ts \div DayLen

Days == 0..DateDir(MaxTs)

\* bufio.MaxScanTokenSize, the line buffer of the bufio.NewScanner List uses
MaxScanTokenSize == 64 * 1024

\* byte lengths of json.Marshal(t): the longest line that fits the scanner's
\* buffer together with its newline, and the shortest that does not
Sizes == {MaxScanTokenSize - 1, MaxScanTokenSize}

\* a line that is no JSON trace
BadLine == [bad |-> TRUE, id |-> 0, ts |-> 0, size |-> 1]

TraceLine(t) == [bad |-> FALSE, id |-> t.id, ts |-> t.ts, size |-> t.size]

NoList == [op |-> "none", ids |-> {}, since |-> NoTime, until |-> NoTime, limit |-> 0,
           err |-> FALSE, traces |-> <<>>]

IdleStore ==
    /\ baseDir = FALSE
    /\ files = [d \in Days |-> <<>>]
    /\ appended = <<>>
    /\ listed = NoList

InitStoreVars ==
    /\ baseDir \in BOOLEAN
    /\ files = [d \in Days |-> <<>>]
    /\ appended = <<>>
    /\ listed = NoList

\* Append line 78-80: a zero timestamp becomes time.Now().UTC()
AppendTimestamp(ts, now) == IF ts = ZeroTime THEN now ELSE ts

\* the file after f.Write(append(line, '\n')) on an O_APPEND descriptor
WriteLine(lines, t) == Append(lines, TraceLine(t))

\* LocalStore.Append, one call running alone.  fail names the step that
\* returns an error: MkdirAll, json.Marshal, OpenFile, Write, or none.
StoreAppend ==
    /\ Len(appended) < MaxAppend
    /\ \E ts \in Times \cup {ZeroTime}, now \in Times, size \in Sizes,
          fail \in {"none", "mkdir", "marshal", "open", "write"} :
          LET t == [id |-> Len(appended) + 1, ts |-> AppendTimestamp(ts, now), size |-> size]
              d == DateDir(t.ts)
          IN  /\ baseDir' = IF fail = "mkdir" THEN baseDir ELSE TRUE
              /\ IF fail = "none"
                   THEN /\ files' = [files EXCEPT ![d] = WriteLine(files[d], t)]
                        /\ appended' = Append(appended, t)
                   ELSE UNCHANGED <<files, appended>>
    /\ listed' = NoList
    /\ UNCHANGED <<pvars, avars, kvars, xvars>>

\* the environment damages a partition file: a line that is no trace
Corrupt ==
    /\ baseDir
    /\ Cardinality({<<d, i>> \in Days \X (1..MaxAppend + MaxBad) :
                       i <= Len(files[d]) /\ files[d][i].bad}) < MaxBad
    /\ \E d \in Days : files' = [files EXCEPT ![d] = Append(files[d], BadLine)]
    /\ listed' = NoList
    /\ UNCHANGED <<baseDir, appended, pvars, avars, kvars, xvars>>

\* List lines 140-148: the id and the inclusive since/until filters
Matches(ln, f) ==
    /\ f.ids # {} => ln.id \in f.ids
    /\ ~(f.since # NoTime /\ ln.ts < f.since)
    /\ ~(f.until # NoTime /\ ln.ts > f.until)

\* scanner.Scan() gives up on a line that does not fit its buffer together
\* with its newline; scanner.Err() is then bufio.ErrTooLong
TooLong(ln) == ln.size + 1 > MaxScanTokenSize

\* List line 150: the check made after each appended trace
LimitReached(f, acc) == f.limit > 0 /\ Len(acc) >= f.limit

\* the mutation of ScanFile that skips a line that does not decode
RECURSIVE ScanFileSkipBad(_, _, _, _)
ScanFileSkipBad(lines, i, acc, f) ==
    IF i > Len(lines) THEN [err |-> FALSE, traces |-> acc]
    ELSE IF TooLong(lines[i]) THEN [err |-> TRUE, traces |-> acc]
    ELSE IF lines[i].bad \/ ~Matches(lines[i], f) THEN ScanFileSkipBad(lines, i + 1, acc, f)
    ELSE LET acc2 == Append(acc, lines[i])
         IN  IF LimitReached(f, acc2) THEN [err |-> FALSE, traces |-> acc2]
             ELSE ScanFileSkipBad(lines, i + 1, acc2, f)

\* the WalkDir callback on one traces.jsonl (List lines 128-157), from line i
\* with acc the traces collected so far
RECURSIVE ScanFile(_, _, _, _)
ScanFile(lines, i, acc, f) ==
    IF i > Len(lines) THEN [err |-> FALSE, traces |-> acc]
    ELSE IF TooLong(lines[i]) THEN [err |-> TRUE, traces |-> acc]
    ELSE IF lines[i].bad THEN [err |-> TRUE, traces |-> acc]
    ELSE IF ~Matches(lines[i], f) THEN ScanFile(lines, i + 1, acc, f)
    ELSE LET acc2 == Append(acc, lines[i])
         IN  IF LimitReached(f, acc2) THEN [err |-> FALSE, traces |-> acc2]
             ELSE ScanFile(lines, i + 1, acc2, f)

\* filepath.WalkDir over the day directories in lexical (= date) order; a
\* callback error ends the walk, a nil return goes on to the next file
RECURSIVE WalkDir(_, _, _, _)
WalkDir(fs, d, acc, f) ==
    IF d \notin Days THEN [err |-> FALSE, traces |-> acc]
    ELSE LET r == ScanFile(fs[d], 1, acc, f)
         IN  IF r.err THEN [err |-> TRUE, traces |-> <<>>]
             ELSE WalkDir(fs, d + 1, r.traces, f)

\* sort.Slice by Timestamp.Before: ascending, the order of equal timestamps
\* unspecified (sort.Slice is not stable)
SortedByTimestamp(acc) ==
    LET n == Len(acc)
        perms == {p \in [1..n -> 1..n] : \A i, j \in 1..n : i # j => p[i] # p[j]}
    IN  {[i \in 1..n |-> acc[p[i]]] : p \in
            {q \in perms : \A i, j \in 1..n : i < j => ~(acc[q[j]].ts < acc[q[i]].ts)}}

\* LocalStore.List before the final sort
ListUnsorted(dirOk, fs, f) ==
    IF ~dirOk THEN [err |-> TRUE, traces |-> <<>>]
    ELSE WalkDir(fs, 0, <<>>, f)

FilterIDs == {{}, {2}, {1, 3}}

Filters ==
    [ids : FilterIDs, since : {NoTime, 2}, until : {NoTime, 2}, limit : 0..2]

Listed(op, f, err, trs) ==
    [op |-> op, ids |-> f.ids, since |-> f.since, until |-> f.until, limit |-> f.limit,
     err |-> err, traces |-> trs]

\* the caller takes the result of its List/Read call
Return ==
    /\ listed.op # "none"
    /\ listed' = NoList
    /\ UNCHANGED <<baseDir, files, appended, pvars, avars, kvars, xvars>>

ListCall ==
    /\ listed.op = "none"
    /\ \E f \in Filters :
          LET r == ListUnsorted(baseDir, files, f)
          IN  \E out \in SortedByTimestamp(r.traces) :
                 listed' = Listed("list", f, r.err, out)
    /\ UNCHANGED <<baseDir, files, appended, pvars, avars, kvars, xvars>>

\* LocalStore.Read: List with {IDs: [id], Limit: 1}; "not found" if empty
ReadFilter(id) == [ids |-> {id}, since |-> NoTime, until |-> NoTime, limit |-> 1]

ReadCall ==
    /\ listed.op = "none"
    /\ \E id \in 1..MaxAppend :
          LET f == ReadFilter(id)
              r == ListUnsorted(baseDir, files, f)
          IN  \E out \in SortedByTimestamp(r.traces) :
                 listed' = Listed("read", f, r.err \/ Len(out) = 0,
                                  IF r.err \/ Len(out) = 0 THEN <<>> ELSE <<out[1]>>)
    /\ UNCHANGED <<baseDir, files, appended, pvars, avars, kvars, xvars>>

NextStore ==
    \/ StoreAppend
    \/ Corrupt
    \/ ListCall
    \/ ReadCall
    \/ Return

\* ------------------------------------------------------------------------
\* LocalStore.Append under concurrency: the steps of one call
\* ------------------------------------------------------------------------
Writers == 1..MaxWriters

NoHolder == 0

IdleApp == [pc |-> "idle", day |-> 0, err |-> FALSE]

IdleAppend ==
    /\ mu = NoHolder
    /\ disk = [d \in Days |-> <<>>]
    /\ app = [g \in Writers |-> IdleApp]

\* Append lines 78-90, before the lock: the day directory is chosen and
\* created, the trace is marshalled; either may fail
AppendBegin(g) ==
    /\ app[g].pc = "idle"
    /\ \E ts \in Times, ok \in BOOLEAN :
          app' = [app EXCEPT ![g] = [pc |-> IF ok THEN "lock" ELSE "done",
                                     day |-> DateDir(ts), err |-> ~ok]]
    /\ UNCHANGED <<mu, disk, pvars, svars, kvars, xvars>>

\* the mutation of TryLock that lets every caller in
TryLockAlways(m) == TRUE

\* sync.Mutex.Lock returns only when no goroutine holds the mutex
TryLock(m) == m = NoHolder

\* s.mu.Lock()
AppendLock(g) ==
    /\ app[g].pc = "lock"
    /\ TryLock(mu)
    /\ mu' = g
    /\ app' = [app EXCEPT ![g].pc = "open"]
    /\ UNCHANGED <<disk, pvars, svars, kvars, xvars>>

\* os.OpenFile(path, O_CREATE|O_APPEND|O_WRONLY): on an error Append returns
\* and the deferred Unlock runs
AppendOpen(g) ==
    /\ app[g].pc = "open"
    /\ \E ok \in BOOLEAN :
          IF ok THEN /\ app' = [app EXCEPT ![g].pc = "write"]
                     /\ UNCHANGED mu
                ELSE /\ app' = [app EXCEPT ![g].pc = "done", ![g].err = TRUE]
                     /\ mu' = NoHolder
    /\ UNCHANGED <<disk, pvars, svars, kvars, xvars>>

\* f.Write(append(line, '\n')): os.File.Write passes the buffer to write(2)
\* until all of it is written, so the line may reach the file in two
\* chunks, the second one ending in the newline; each chunk goes to the
\* current end of the file (O_APPEND).  A failing write writes nothing.
AppendWrite(g) ==
    /\ app[g].pc = "write"
    /\ \E ok \in BOOLEAN :
          IF ok THEN /\ disk' = [disk EXCEPT ![app[g].day] = Append(@, <<g, "head">>)]
                     /\ app' = [app EXCEPT ![g].pc = "write2"]
                     /\ UNCHANGED mu
                ELSE /\ app' = [app EXCEPT ![g].pc = "done", ![g].err = TRUE]
                     /\ mu' = NoHolder
                     /\ UNCHANGED disk
    /\ UNCHANGED <<pvars, svars, kvars, xvars>>

AppendWriteRest(g) ==
    /\ app[g].pc = "write2"
    /\ disk' = [disk EXCEPT ![app[g].day] = Append(@, <<g, "tail">>)]
    /\ app' = [app EXCEPT ![g].pc = "unlock"]
    /\ UNCHANGED <<mu, pvars, svars, kvars, xvars>>

\* the deferred f.Close() and s.mu.Unlock(); Append returns nil
AppendUnlock(g) ==
    /\ app[g].pc = "unlock"
    /\ mu' = NoHolder
    /\ app' = [app EXCEPT ![g].pc = "done"]
    /\ UNCHANGED <<disk, pvars, svars, kvars, xvars>>

NextAppend ==
    \/ \E g \in Writers : AppendBegin(g)
    \/ \E g \in Writers : AppendLock(g)
    \/ \E g \in Writers : AppendOpen(g)
    \/ \E g \in Writers : AppendWrite(g)
    \/ \E g \in Writers : AppendWriteRest(g)
    \/ \E g \in Writers : AppendUnlock(g)

\* ------------------------------------------------------------------------
\* baseline.Key.  Text (JSON, keys, hashes) is a sequence of tokens; the
\* arguments are Go values: pointers have an address (0 is nil) and a
\* pointee, a slice is nil or not, and the payload map is iterated in an
\* order the runtime picks.
\* ------------------------------------------------------------------------
NilPtr == [addr |-> 0, val |-> 0]

Addrs == {1, 2}

NilSlice == [isNil |-> TRUE, elems |-> <<>>]

Lower(c) ==
    CASE c = "G" -> "g" [] c = "P" -> "p" [] c = "T" -> "t" [] OTHER -> c

IsLetterOrNumber(c) == c \in {"g", "p", "t", "G", "P", "T", "4", "o"}

\* strings.Trim(s, "-")
RECURSIVE TrimLeftDash(_)
TrimLeftDash(cs) ==
    IF cs # <<>> /\ Head(cs) = "-" THEN TrimLeftDash(Tail(cs)) ELSE cs

RECURSIVE TrimRightDash(_)
TrimRightDash(cs) ==
    IF cs # <<>> /\ cs[Len(cs)] = "-" THEN TrimRightDash(SubSeq(cs, 1, Len(cs) - 1)) ELSE cs

\* the loop of util.Slugify over the lower-cased runes from index i
RECURSIVE SlugLoop(_, _, _, _)
SlugLoop(cs, i, b, lastDash) ==
    IF i > Len(cs) THEN b
    ELSE IF IsLetterOrNumber(Lower(cs[i]))
           THEN SlugLoop(cs, i + 1, Append(b, Lower(cs[i])), FALSE)
    ELSE IF ~lastDash THEN SlugLoop(cs, i + 1, Append(b, "-"), TRUE)
    ELSE SlugLoop(cs, i + 1, b, TRUE)

\* util.Slugify
Slugify(input) ==
    LET slug == TrimRightDash(TrimLeftDash(SlugLoop(input, 1, <<>>, FALSE)))
    IN  IF slug = <<>> THEN <<"c", "a", "s", "e">> ELSE slug

\* util.ShortHash: the first 8 hex digits of the SHA-256 of the text; the
\* digest is not computed, it is the text under a tag
ShortHash(data) == <<"sha256[:8]">> \o data

PayloadKeys == {"provider", "model", "params", "system"}

KeyRank(k) ==
    CASE k = "model" -> 1 [] k = "params" -> 2 [] k = "provider" -> 3 [] OTHER -> 4

\* the mutation of MapKeys that keeps the map's iteration order
MapKeysUnsorted(order) == order

\* encoding/json writes a map's keys sorted, whatever the iteration order
MapKeys(order) ==
    [i \in 1..Len(order) |->
        CHOOSE k \in PayloadKeys :
            Cardinality({j \in PayloadKeys : KeyRank(j) < KeyRank(k)}) = i - 1]

EncString(s) == <<"\"", s, "\"">>

\* encoding/json writes a string between quotes, with a backslash before a
\* quote or a backslash inside it
RECURSIVE Escape(_)
Escape(cs) ==
    IF cs = <<>> THEN <<>>
    ELSE (IF Head(cs) \in {"\"", "\\"} THEN <<"\\", Head(cs)>> ELSE <<Head(cs)>>)
         \o Escape(Tail(cs))

EncChars(cs) == <<"\"">> \o Escape(cs) \o <<"\"">>

\* the mutation of EncPtrField that also leaves out a zero value
EncPtrFieldOmitZero(name, p, first) ==
    IF p.addr = 0 \/ p.val = 0 THEN <<>>
    ELSE (IF first THEN <<>> ELSE <<",">>) \o <<"\"", name, "\"", ":", ToString(p.val)>>

\* a *float64 / *int field with omitempty: left out when nil, else the value
EncPtrField(name, p, first) ==
    IF p.addr = 0 THEN <<>>
    ELSE (IF first THEN <<>> ELSE <<",">>) \o <<"\"", name, "\"", ":", ToString(p.val)>>

RECURSIVE EncStrings(_, _)
EncStrings(elems, i) ==
    IF i > Len(elems) THEN <<>>
    ELSE (IF i = 1 THEN <<>> ELSE <<",">>) \o EncString(elems[i]) \o EncStrings(elems, i + 1)

\* the Stop field with omitempty: left out when the slice has no element
EncStopField(sl, first) ==
    IF Len(sl.elems) = 0 THEN <<>>
    ELSE (IF first THEN <<>> ELSE <<",">>)
         \o <<"\"", "stop", "\"", ":", "[">> \o EncStrings(sl.elems, 1) \o <<"]">>

\* json.Marshal of a *model.SamplingParams: null for a nil pointer, else the
\* struct's fields in declaration order
EncParams(p) ==
    IF p.addr = 0 THEN <<"null">>
    ELSE LET t  == EncPtrField("temperature", p.Temperature, TRUE)
             tp == EncPtrField("top_p", p.TopP, t = <<>>)
             m  == EncPtrField("max_output_tokens", p.MaxOutputTokens, t \o tp = <<>>)
             st == EncStopField(p.Stop, t \o tp \o m = <<>>)
         IN  <<"{">> \o t \o tp \o m \o st \o <<"}">>

EncValue(a, k) ==
    CASE k = "provider" -> EncString(a.provider)
      [] k = "model" -> EncChars(a.model)
      [] k = "params" -> EncParams(a.params)
      [] OTHER -> EncString(a.system)

RECURSIVE EncMap(_, _, _)
EncMap(a, keys, i) ==
    IF i > Len(keys) THEN <<>>
    ELSE (IF i = 1 THEN <<>> ELSE <<",">>)
         \o <<"\"", keys[i], "\"", ":">> \o EncValue(a, keys[i]) \o EncMap(a, keys, i + 1)

\* json.Marshal(payload)
Marshal(a) == <<"{">> \o EncMap(a, MapKeys(a.order), 1) \o <<"}">>

\* baseline.Key: (key, hash); slugModel is never empty, since Slugify
\* returns "case" for an empty slug
Key(a) ==
    LET hash == ShortHash(Marshal(a))
        slugModel == IF Slugify(a.model) = <<>> THEN <<"m", "o", "d", "e", "l">>
                     ELSE Slugify(a.model)
    IN  [key |-> <<a.provider, "-">> \o slugModel \o <<"-">> \o hash, hash |-> hash]

Ptrs(vals) == {NilPtr} \cup [addr : Addrs, val : vals]

Slices == {NilSlice, [isNil |-> FALSE, elems |-> <<>>], [isNil |-> FALSE, elems |-> <<"END">>]}

NilParams ==
    [addr |-> 0, Temperature |-> NilPtr, TopP |-> NilPtr, MaxOutputTokens |-> NilPtr,
     Stop |-> NilSlice]

ParamsValues ==
    {NilParams} \cup
    [addr : Addrs, Temperature : Ptrs({0, 1}), TopP : {NilPtr, [addr |-> 1, val |-> 1]},
     MaxOutputTokens : {NilPtr, [addr |-> 2, val |-> 16]}, Stop : Slices]

ModelNames ==
    { <<"g", "p", "t", "-", "4">>, <<"g", "p", "t", " ", "4">>,
      <<"G", "P", "T", " ", "4", "o">>, <<"g", "\"", "4">> }

MapOrders ==
    { <<"provider", "model", "params", "system">>,
      <<"system", "params", "model", "provider">>,
      <<"params", "provider", "system", "model">> }

KeyArgs ==
    [provider : {"openai", "mock"}, model : ModelNames, params : ParamsValues,
     system : {"", "Be brief."}, order : MapOrders]

\* what a pointer points to, whatever its address
DerefPtr(p) == IF p.addr = 0 THEN <<>> ELSE <<p.val>>

\* the sampling parameters as a value: none (nil pointer), or the settings
DerefParams(p) ==
    IF p.addr = 0 THEN <<"none">>
    ELSE <<"params", DerefPtr(p.Temperature), DerefPtr(p.TopP),
           DerefPtr(p.MaxOutputTokens), p.Stop.elems>>

\* the four inputs of Key as values
Structure(a) == <<a.provider, a.model, DerefParams(a.params), a.system>>

NoResult == [key |-> <<>>, hash |-> <<>>]

NoCall == [n |-> 0, a |-> 0, b |-> 0, ra |-> NoResult, rb |-> NoResult]

IdleKey == call = NoCall

InitKeyVars ==
    \E a \in KeyArgs : call = [n |-> 0, a |-> a, b |-> a, ra |-> NoResult, rb |-> NoResult]

\* a first call of Key
KeyCall ==
    /\ call.n = 0
    /\ call' = [call EXCEPT !.n = 1, !.ra = Key(call.a)]
    /\ UNCHANGED <<pvars, svars, avars, xvars>>

\* a later call (another run, another machine) with the same inputs held by
\* other Go values: other addresses, another map iteration order, a nil
\* slice for an empty one
KeyCallAgain ==
    /\ call.n = 1
    /\ \E p \in ParamsValues, o \in MapOrders :
          /\ DerefParams(p) = DerefParams(call.a.params)
          /\ LET b == [call.a EXCEPT !.params = p, !.order = o]
             IN  call' = [call EXCEPT !.n = 2, !.b = b, !.rb = Key(b)]
    /\ UNCHANGED <<pvars, svars, avars, xvars>>

\* the sampling fields as values; a nil params pointer sets none of them
SamplingFields(p) ==
    <<DerefPtr(p.Temperature), DerefPtr(p.TopP), DerefPtr(p.MaxOutputTokens), p.Stop.elems>>

\* the seven inputs a baseline is bound to: provider, model, system prompt
\* and the four sampling fields
Inputs(a) == <<a.provider, a.model, a.system>> \o SamplingFields(a.params)

\* the params values another call can pass, one Go value for each setting
ParamsChoices ==
    {NilParams} \cup
    [addr : {1}, Temperature : {NilPtr, [addr |-> 1, val |-> 0], [addr |-> 1, val |-> 1]},
     TopP : {NilPtr, [addr |-> 1, val |-> 1]},
     MaxOutputTokens : {NilPtr, [addr |-> 2, val |-> 16]},
     Stop : {NilSlice, [isNil |-> FALSE, elems |-> <<"END">>]}]

\* a later call of Key with one input changed: the provider, the model, the
\* system prompt or one sampling field
KeyCallChanged ==
    /\ call.n = 1
    /\ \E b \in [provider : {"openai", "mock"}, model : ModelNames, params : ParamsChoices,
                  system : {"", "Be brief."}, order : {call.a.order}] :
          /\ Cardinality({i \in 1..7 : Inputs(b)[i] # Inputs(call.a)[i]}) = 1
          /\ call' = [call EXCEPT !.n = 3, !.b = b, !.rb = Key(b)]
    /\ UNCHANGED <<pvars, svars, avars, xvars>>

NextKey ==
    \/ KeyCall
    \/ KeyCallAgain
    \/ KeyCallChanged

\* ------------------------------------------------------------------------
\* eval.CaseResult, baseline.FromResult, diff.Diff.  A float64 rate is a
\* fraction <<numerator, denominator>> with a positive denominator; a text
\* is a sequence of characters.
\* ------------------------------------------------------------------------
Rate(n, d) == <<n, d>>

RateSub(x, y) == <<x[1] * y[2] - y[1] * x[2], x[2] * y[2]>>

RateLess(x, y) == x[1] * y[2] < y[1] * x[2]

RateIsZero(x) == x[1] = 0

RateIsOne(x) == x[1] = x[2]

Texts == { <<>>, <<" ">>, <<"o", "k">>, <<"O", "k", " ", "o", "k">> }

\* strings.ToLower on a text
TextLower(cs) ==
    [i \in 1..Len(cs) |-> CASE cs[i] = "O" -> "o" [] cs[i] = "K" -> "k" [] OTHER -> cs[i]]

\* strings.Fields: the maximal runs of non-space characters from index i on,
\* word being the run read so far
RECURSIVE FieldsFrom(_, _, _)
FieldsFrom(cs, i, word) ==
    IF i > Len(cs) THEN (IF word = <<>> THEN {} ELSE {word})
    ELSE IF cs[i] = " "
           THEN (IF word = <<>> THEN {} ELSE {word}) \cup FieldsFrom(cs, i + 1, <<>>)
    ELSE FieldsFrom(cs, i + 1, Append(word, cs[i]))

tokenSet(text) == FieldsFrom(TextLower(text), 1, <<>>)

tokenJaccard(a, b) ==
    LET setA == tokenSet(a)
        setB == tokenSet(b)
        intersection == Cardinality(setA \cap setB)
        union == Cardinality(setA) + Cardinality(setB \ setA)
    IN  IF setA = {} /\ setB = {} THEN Rate(1, 1)
        ELSE IF union = 0 THEN Rate(0, 1)
        ELSE Rate(intersection, union)

\* the zero value of a float64
ZeroFloat == Rate(0, 1)

\* baseline.FromResult
FromResult(res, baselineKey, paramsHash) ==
    [CaseID |-> res.CaseID, BaselineKey |-> baselineKey, Provider |-> res.Provider,
     ParamsHash |-> paramsHash, Aggregates |-> res.Aggregates,
     GoldenText |-> IF Len(res.Runs) > 0 THEN res.Runs[1].OutputText ELSE <<>>]

\* the mutation of Diff that compares the golden text with the last run
DiffLastRun(current, b) ==
    [CaseID |-> current.CaseID,
     MetricDelta |->
        [pass_rate |-> RateSub(current.Aggregates.PassRate, b.Aggregates.PassRate),
         latency_p95_ms |-> current.Aggregates.LatencyP95MS - b.Aggregates.LatencyP95MS,
         refusal_rate |-> RateSub(current.Aggregates.RefusalRate, b.Aggregates.RefusalRate),
         json_valid_rate |-> RateSub(current.Aggregates.JSONValidRate, b.Aggregates.JSONValidRate)],
     TokenJaccard |->
        IF Len(current.Runs) > 0
          THEN tokenJaccard(b.GoldenText, current.Runs[Len(current.Runs)].OutputText)
          ELSE ZeroFloat]

\* diff.Diff
Diff(current, b) ==
    [CaseID |-> current.CaseID,
     MetricDelta |->
        [pass_rate |-> RateSub(current.Aggregates.PassRate, b.Aggregates.PassRate),
         latency_p95_ms |-> current.Aggregates.LatencyP95MS - b.Aggregates.LatencyP95MS,
         refusal_rate |-> RateSub(current.Aggregates.RefusalRate, b.Aggregates.RefusalRate),
         json_valid_rate |-> RateSub(current.Aggregates.JSONValidRate, b.Aggregates.JSONValidRate)],
     TokenJaccard |->
        IF Len(current.Runs) > 0
          THEN tokenJaccard(b.GoldenText, current.Runs[1].OutputText)
          ELSE ZeroFloat]

\* eval.RunResult values: Pass, OutputText and the run's metrics
RunValues ==
    [Pass : BOOLEAN, OutputText : Texts, LatencyMS : {120}, Refused : {FALSE},
     JSONValid : {FALSE}]

RunLists == UNION {[1..n -> RunValues] : n \in 0..MaxRuns}

AggregateValues ==
    [PassRate : {Rate(0, 1), Rate(1, 2), Rate(1, 1)}, LatencyP95MS : {0, 250},
     RefusalRate : {Rate(0, 1), Rate(1, 2)}, JSONValidRate : {Rate(1, 1)}]

\* the case results Diff and FromResult can be given
CaseResults ==
    [CaseID : {"greeting"}, Provider : {"openai"}, Runs : RunLists,
     Aggregates : AggregateValues]

NoBaseline == [CaseID |-> ""]

NoDelta == [CaseID |-> ""]

NoCaseResult == [CaseID |-> ""]

IdleDiff ==
    /\ result = NoCaseResult
    /\ base = NoBaseline
    /\ delta = NoDelta

InitDiffVars ==
    /\ result \in CaseResults
    /\ base = NoBaseline
    /\ delta = NoDelta

\* a baseline is built from the result itself, or from one with the same
\* runs and other aggregates
FromResultCall ==
    /\ base = NoBaseline
    /\ \E agg \in {result.Aggregates,
                  [PassRate |-> Rate(1, 2), LatencyP95MS |-> 250,
                   RefusalRate |-> Rate(0, 1), JSONValidRate |-> Rate(1, 1)]} :
          base' = FromResult([result EXCEPT !.Aggregates = agg],
                             "openai-gpt-4-1a2b3c4d", "1a2b3c4d")
    /\ UNCHANGED <<result, delta, pvars, svars, avars, kvars, evars, rvars, tvars, hvars, ovars, nvars>>

DiffCall ==
    /\ base # NoBaseline
    /\ delta = NoDelta
    /\ delta' = Diff(result, base)
    /\ UNCHANGED <<result, base, pvars, svars, avars, kvars, evars, rvars, tvars, hvars, ovars, nvars>>

NextDiff ==
    \/ FromResultCall
    \/ DiffCall


\* ------------------------------------------------------------------------
\* eval.RunCase's result, config.validatePolicies, policy.Evaluate.  An
\* optional field (a Go pointer) is NilPtr or Some(value).
\* ------------------------------------------------------------------------
Some(v) == [addr |-> 1, val |-> v]

\* strings.Contains
Contains(text, phrase) ==
    \E i \in 0..(Len(text) - Len(phrase)) : SubSeq(text, i + 1, i + Len(phrase)) = phrase

\* the latency at index int(float64(n-1) * 0.95) of the sorted latencies, the
\* last one for a single run
P95(runs) ==
    LET n == Len(runs)
        idx == IF n > 1 THEN ((n - 1) * 95) \div 100 ELSE n - 1
    IN  CHOOSE v \in {runs[i].LatencyMS : i \in 1..n} :
            /\ Cardinality({i \in 1..n : runs[i].LatencyMS < v}) <= idx
            /\ idx < Cardinality({i \in 1..n : runs[i].LatencyMS <= v})

\* eval.computeAggregates
computeAggregates(results) ==
    IF Len(results) = 0
      THEN [PassRate |-> ZeroFloat, LatencyP95MS |-> 0, RefusalRate |-> ZeroFloat,
            JSONValidRate |-> ZeroFloat]
      ELSE LET total == Len(results)
               passCount == Cardinality({i \in 1..total : results[i].Pass})
               refusalCount == Cardinality({i \in 1..total : results[i].Refused})
               jsonValidCount == Cardinality({i \in 1..total : results[i].JSONValid})
           IN  [PassRate |-> Rate(passCount, total), LatencyP95MS |-> P95(results),
                RefusalRate |-> Rate(refusalCount, total),
                JSONValidRate |-> Rate(jsonValidCount, total)]

\* the CaseResult RunCase returns for the runs it made
RunCase(caseID, provider, results) ==
    [CaseID |-> caseID, Provider |-> provider, Runs |-> results,
     Aggregates |-> computeAggregates(results)]

NoCheck ==
    [Type |-> "", Extractor |-> "", MinPassRate |-> NilPtr, Schema |-> "", Phrases |-> {},
     MaxIncidents |-> NilPtr, Detector |-> "", Metric |-> "", MaxP95 |-> NilPtr,
     Max |-> NilPtr, MaxDelta |-> NilPtr, LatencyP95 |-> NilPtr]

\* the checks a configuration file can hold: every type the README lists,
\* with and without the fields it names, an unknown type and no type
Checks ==
    { [NoCheck EXCEPT !.Type = "assertions", !.MinPassRate = Some(Rate(1, 1))],
      [NoCheck EXCEPT !.Type = "assertions", !.MinPassRate = Some(Rate(1, 2))],
      [NoCheck EXCEPT !.Type = "assertions"],
      [NoCheck EXCEPT !.Type = "json_valid"],
      [NoCheck EXCEPT !.Type = "json_schema", !.Schema = "schema.json"],
      [NoCheck EXCEPT !.Type = "json_schema"],
      [NoCheck EXCEPT !.Type = "text_contains", !.Phrases = {<<"o", "k">>}],
      [NoCheck EXCEPT !.Type = "text_contains"],
      [NoCheck EXCEPT !.Type = "text_not_contains", !.Phrases = {<<"o", "k">>}],
      [NoCheck EXCEPT !.Type = "pii_leak", !.Detector = "pii_basic"],
      [NoCheck EXCEPT !.Type = "pii_leak"],
      [NoCheck EXCEPT !.Type = "variance", !.Metric = "token_jaccard", !.MaxP95 = Some(Rate(1, 2))],
      [NoCheck EXCEPT !.Type = "variance", !.Metric = "token_jaccard"],
      [NoCheck EXCEPT !.Type = "variance", !.MaxP95 = Some(Rate(1, 2))],
      [NoCheck EXCEPT !.Type = "refusal_rate", !.Max = Some(Rate(0, 1))],
      [NoCheck EXCEPT !.Type = "refusal_rate", !.MaxDelta = Some(Rate(0, 1))],
      [NoCheck EXCEPT !.Type = "refusal_rate"],
      [NoCheck EXCEPT !.Type = "latency",
                      !.LatencyP95 = Some([Max |-> Some(200), MaxDelta |-> Some(0)])],
      [NoCheck EXCEPT !.Type = "latency"],
      [NoCheck EXCEPT !.Type = "regex"],
      NoCheck }

NilScope == [isNil |-> TRUE, Tags |-> {}, IDs |-> {}, Providers |-> {}]

Scopes ==
    { [isNil |-> FALSE, Tags |-> {}, IDs |-> {}, Providers |-> {}],
      [isNil |-> FALSE, Tags |-> {"smoke", "nightly"}, IDs |-> {}, Providers |-> {}],
      [isNil |-> FALSE, Tags |-> {}, IDs |-> {"refund"}, Providers |-> {}],
      [isNil |-> FALSE, Tags |-> {"smoke"}, IDs |-> {}, Providers |-> {"mock"}] }

\* the policies of a configuration file, before their id is given: every
\* check with no scope and no severity, and a refusal-rate check under the
\* scopes and severities
PolicyBodies ==
    {[ID |-> "", Severity |-> "", Scope |-> NilScope, Check |-> c] : c \in Checks}
    \cup {[ID |-> "", Severity |-> "warn", Scope |-> sc,
           Check |-> [NoCheck EXCEPT !.Type = "refusal_rate", !.Max = Some(Rate(0, 1))]] :
            sc \in Scopes}
    \cup {[ID |-> "", Severity |-> sev, Scope |-> NilScope,
           Check |-> [NoCheck EXCEPT !.Type = "refusal_rate", !.Max = Some(Rate(0, 1))]] :
            sev \in {"error", "fatal"}}

\* the policy at position i of the file is given the id "i"
PolicyConfigs ==
    UNION {{[i \in 1..n |-> [f[i] EXCEPT !.ID = ToString(i)]] : f \in [1..n -> PolicyBodies]} :
              n \in 0..MaxPolicies}

\* validatePolicySeverity: "" becomes "error"; anything but error and warn
\* is rejected
SeverityOk(policy) == policy.Severity \in {"", "error", "warn"}

SeverityDefault(policy) ==
    IF policy.Severity = "" THEN [policy EXCEPT !.Severity = "error"] ELSE policy

\* validatePolicyCheckDefaults
CheckDefaults(policy) ==
    IF policy.Check.Type = "json_valid" /\ policy.Check.Extractor = ""
      THEN [policy EXCEPT !.Check.Extractor = "assistant_text"]
      ELSE policy

\* validatePolicyCheck and the validators of policyCheckValidators: TRUE
\* when the check is accepted
validatePolicyCheck(check) ==
    CASE check.Type = "" -> FALSE
      [] check.Type = "json_valid" -> TRUE
      [] check.Type = "json_schema" -> check.Schema # ""
      [] check.Type \in {"text_contains", "text_not_contains"} -> check.Phrases # {}
      [] check.Type = "pii_leak" -> check.Detector # ""
      [] check.Type = "variance" -> check.Metric # ""
      [] check.Type = "refusal_rate" -> ~(check.Max = NilPtr /\ check.MaxDelta = NilPtr)
      [] check.Type = "latency" -> check.LatencyP95 # NilPtr
      [] check.Type = "assertions" -> check.MinPassRate # NilPtr
      [] OTHER -> FALSE

\* validatePolicies on one policy
PolicyOk(policy) ==
    /\ policy.ID # ""
    /\ SeverityOk(policy)
    /\ validatePolicyCheck(policy.Check)

\* validatePolicies: the policies with their defaults applied, if all pass
validatePolicies(ps) ==
    IF \A i \in 1..Len(ps) : PolicyOk(ps[i])
      THEN [ok |-> TRUE, policies |-> [i \in 1..Len(ps) |-> CheckDefaults(SeverityDefault(ps[i]))]]
      ELSE [ok |-> FALSE, policies |-> <<>>]

containsAny(haystack, needles) == haystack \cap needles # {}

\* the mutation of matchesScope that is content with one matching filter
matchesScopeAnyFilter(scope, c, res) ==
    \/ scope.isNil
    \/ scope.Tags # {} /\ containsAny(c.Tags, scope.Tags)
    \/ scope.IDs # {} /\ containsAny({c.ID}, scope.IDs)
    \/ scope.Providers # {} /\ containsAny({res.Provider}, scope.Providers)

\* policy.matchesScope
matchesScope(scope, c, res) ==
    IF scope.isNil THEN TRUE
    ELSE IF scope.Tags # {} /\ ~containsAny(c.Tags, scope.Tags) THEN FALSE
    ELSE IF scope.IDs # {} /\ ~containsAny({c.ID}, scope.IDs) THEN FALSE
    ELSE IF scope.Providers # {} /\ ~containsAny({res.Provider}, scope.Providers) THEN FALSE
    ELSE TRUE

\* policy.textContainsRate
textContainsRate(runs, phrases) ==
    IF Len(runs) = 0 THEN ZeroFloat
    ELSE Rate(Cardinality({i \in 1..Len(runs) :
                              \A p \in phrases : Contains(runs[i].OutputText, p)}),
              Len(runs))

\* policy.textNotContainsIncidents
textNotContainsIncidents(runs, phrases) ==
    Cardinality({i \in 1..Len(runs) : \E p \in phrases : Contains(runs[i].OutputText, p)})

\* the texts of the model that a pattern of piiPatterns matches
PIITexts == {}

\* policy.piiIncidents
piiIncidents(runs, detector) ==
    Cardinality({i \in 1..Len(runs) : runs[i].OutputText \in PIITexts})

NoViolation == [PolicyID |-> "", Severity |-> "", Message |-> ""]

\* policy.violation
violation(policy, msg) ==
    [PolicyID |-> policy.ID,
     Severity |-> IF policy.Severity = "" THEN "error" ELSE policy.Severity,
     Message |-> msg]

\* the value of an optional threshold, or its default
OrDefault(p, dflt) == IF p = NilPtr THEN dflt ELSE p.val

\* policy.evaluatePolicy: the violation, or NoViolation for nil
evaluatePolicy(policy, res, d) ==
    LET check == policy.Check IN
    CASE check.Type = "json_valid" ->
            IF RateLess(res.Aggregates.JSONValidRate, OrDefault(check.MinPassRate, Rate(1, 1)))
              THEN violation(policy, "json valid rate below") ELSE NoViolation
      [] check.Type = "text_contains" ->
            IF RateLess(textContainsRate(res.Runs, check.Phrases),
                        OrDefault(check.MinPassRate, Rate(1, 1)))
              THEN violation(policy, "text contains rate below") ELSE NoViolation
      [] check.Type = "text_not_contains" ->
            IF textNotContainsIncidents(res.Runs, check.Phrases) > OrDefault(check.MaxIncidents, 0)
              THEN violation(policy, "text not_contains incidents above") ELSE NoViolation
      [] check.Type = "pii_leak" ->
            IF piiIncidents(res.Runs, check.Detector) > OrDefault(check.MaxIncidents, 0)
              THEN violation(policy, "pii incidents above") ELSE NoViolation
      [] check.Type = "variance" ->
            IF check.MaxP95 = NilPtr THEN violation(policy, "max_p95 is required")
            ELSE IF RateLess(check.MaxP95.val, RateSub(Rate(1, 1), d.TokenJaccard))
              THEN violation(policy, "variance above") ELSE NoViolation
      [] check.Type = "refusal_rate" ->
            IF check.Max # NilPtr /\ RateLess(check.Max.val, res.Aggregates.RefusalRate)
              THEN violation(policy, "refusal rate above")
            ELSE IF check.MaxDelta # NilPtr
                    /\ RateLess(check.MaxDelta.val, d.MetricDelta.refusal_rate)
              THEN violation(policy, "refusal delta above") ELSE NoViolation
      [] check.Type = "latency" ->
            IF check.LatencyP95 = NilPtr THEN violation(policy, "p95_ms is required")
            ELSE IF check.LatencyP95.val.Max # NilPtr
                    /\ res.Aggregates.LatencyP95MS > check.LatencyP95.val.Max.val
              THEN violation(policy, "latency p95 above")
            ELSE IF check.LatencyP95.val.MaxDelta # NilPtr
                    /\ d.MetricDelta.latency_p95_ms > check.LatencyP95.val.MaxDelta.val
              THEN violation(policy, "latency delta above") ELSE NoViolation
      [] check.Type = "json_schema" -> violation(policy, "json schema checks not implemented")
      [] OTHER -> violation(policy, "unsupported check")

\* policy.Evaluate: the loop over the policies from index i
RECURSIVE EvaluateFrom(_, _, _, _, _)
EvaluateFrom(ps, i, c, res, d) ==
    IF i > Len(ps) THEN <<>>
    ELSE IF ~matchesScope(ps[i].Scope, c, res) THEN EvaluateFrom(ps, i + 1, c, res, d)
    ELSE LET v == evaluatePolicy(ps[i], res, d)
         IN  (IF v = NoViolation THEN <<>> ELSE <<v>>) \o EvaluateFrom(ps, i + 1, c, res, d)

Evaluate(ps, c, res, d) == EvaluateFrom(ps, 1, c, res, d)

\* the cases of a test run and the provider that answers them
TestCases ==
    { [ID |-> "greeting", Tags |-> {"smoke"}, Provider |-> "openai"],
      [ID |-> "refund", Tags |-> {}, Provider |-> "openai"],
      [ID |-> "greeting", Tags |-> {"smoke", "pii"}, Provider |-> "mock"] }

\* the runs RunCase can make: an answer that passes its assertions, and a
\* slow refusal that fails them
TestRuns ==
    { [Pass |-> TRUE, OutputText |-> <<"O", "k", " ", "o", "k">>, LatencyMS |-> 120,
       Refused |-> FALSE, JSONValid |-> TRUE],
      [Pass |-> FALSE, OutputText |-> <<"n", "o">>, LatencyMS |-> 300,
       Refused |-> TRUE, JSONValid |-> FALSE] }

\* RunCase makes at least one run
TestRunLists == UNION {[1..n -> TestRuns] : n \in 1..MaxRuns}

\* the result a loaded baseline was built from: the current one, or a
\* single passing run
BaselineSources(res) ==
    {res, RunCase(res.CaseID, res.Provider,
                  <<[Pass |-> TRUE, OutputText |-> <<"o", "k">>, LatencyMS |-> 120,
                     Refused |-> FALSE, JSONValid |-> TRUE]>>)}

NoEval == [violations |-> <<>>, done |-> FALSE]

IdlePolicy ==
    /\ policies = <<>>
    /\ loaded = "idle"
    /\ evald = NoEval

InitPolicyVars ==
    /\ policies \in PolicyConfigs
    /\ loaded = "raw"
    /\ evald = NoEval

\* config.LoadProjectConfig: validateConfig ends with validatePolicies; on
\* an error no configuration is returned and the command ends
LoadProjectConfig ==
    /\ loaded = "raw"
    /\ LET v == validatePolicies(policies)
       IN  /\ loaded' = IF v.ok THEN "ok" ELSE "error"
           /\ policies' = v.policies
    /\ UNCHANGED <<evald, pvars, svars, avars, kvars, dvars, rvars, tvars, hvars, ovars, nvars>>

\* runTest on one case: RunCase, the baseline is loaded, Diff, Evaluate
EvaluateCall ==
    /\ loaded = "ok"
    /\ ~evald.done
    /\ \E c \in TestCases, runs \in TestRunLists :
          LET res == RunCase(c.ID, c.Provider, runs) IN
          \E src \in BaselineSources(res) :
             LET d == Diff(res, FromResult(src, "openai-gpt-4-1a2b3c4d", "1a2b3c4d"))
             IN  evald' = [done |-> TRUE, c |-> c, res |-> res, d |-> d,
                           violations |-> Evaluate(policies, c, res, d)]
    /\ UNCHANGED <<policies, loaded, pvars, svars, avars, kvars, dvars, rvars, tvars, hvars, ovars, nvars>>

NextPolicy ==
    \/ LoadProjectConfig
    \/ EvaluateCall

\* ------------------------------------------------------------------------
\* cmd/test.go's status of a case, report.BuildSummary, report.SortCases
\* ------------------------------------------------------------------------
\* the mutation of maxSeverity that lets a later violation decide
RECURSIVE maxSeverityLast(_)
maxSeverityLast(violations) ==
    IF violations = <<>> THEN ""
    ELSE LET rest == maxSeverityLast(Tail(violations))
         IN  IF rest # "" THEN rest
             ELSE IF Head(violations).Severity \in {"error", "warn"}
                    THEN Head(violations).Severity ELSE ""

\* report.maxSeverity: the loop returns at the first error
RECURSIVE maxSeverity(_)
maxSeverity(violations) ==
    IF violations = <<>> THEN ""
    ELSE IF Head(violations).Severity = "error" THEN "error"
    ELSE LET rest == maxSeverity(Tail(violations))
         IN  IF rest = "" /\ Head(violations).Severity = "warn" THEN "warn" ELSE rest

\* the status line runTest prints for a case
CaseStatus(violations) ==
    LET hasFailed == \E j \in 1..Len(violations) : violations[j].Severity = "error"
        hasWarned == \E j \in 1..Len(violations) : violations[j].Severity = "warn"
    IN  IF hasFailed THEN "FAIL" ELSE IF hasWarned THEN "WARN" ELSE "PASS"

\* the case ids of a suite, in ascending order
CaseOrder == <<"greeting", "refund", "tone">>

CaseRank(id) == CHOOSE r \in 1..Len(CaseOrder) : CaseOrder[r] = id

\* report.SortCases: the cases by ascending CaseID (the ids of a suite differ)
SortCases(cases) ==
    CHOOSE sorted \in [1..Len(cases) -> {cases[i] : i \in 1..Len(cases)}] :
        /\ {sorted[i] : i \in 1..Len(cases)} = {cases[i] : i \in 1..Len(cases)}
        /\ \A i, j \in 1..Len(cases) :
              i < j => CaseRank(sorted[i].CaseID) < CaseRank(sorted[j].CaseID)

\* report.BuildSummary, with the SortCases call that follows it
BuildSummary(cases) ==
    LET n == Len(cases) IN
    [Total |-> n,
     Passed |-> Cardinality({i \in 1..n : maxSeverity(cases[i].Violations) \notin {"error", "warn"}}),
     Warned |-> Cardinality({i \in 1..n : maxSeverity(cases[i].Violations) = "warn"}),
     Failed |-> Cardinality({i \in 1..n : maxSeverity(cases[i].Violations) = "error"}),
     Cases |-> SortCases(cases)]

\* the violations Evaluate can return for a validated configuration: at
\* most one per policy, of severity error or warn
ViolationLists ==
    UNION {[1..n -> {[PolicyID |-> "p", Severity |-> sev, Message |-> "m"] :
                        sev \in {"error", "warn"}}] : n \in 0..MaxPolicies}

NoSummary == [Total |-> 0, built |-> FALSE]

IdleSummary ==
    /\ summaries = <<>>
    /\ statuses = <<>>
    /\ summary = NoSummary
    /\ suite = "idle"

InitSummaryVars ==
    /\ summaries = <<>>
    /\ statuses = <<>>
    /\ summary = NoSummary
    /\ suite = "running"

\* one turn of runTest's loop: the case summary is appended and the status
\* of the case printed
RunTestCase ==
    /\ suite = "running"
    /\ ~summary.built
    /\ Len(summaries) < MaxCases
    /\ \E id \in {CaseOrder[r] : r \in 1..Len(CaseOrder)}, vs \in ViolationLists :
          /\ \A i \in 1..Len(summaries) : summaries[i].CaseID # id
          /\ summaries' = Append(summaries, [CaseID |-> id, Violations |-> vs])
          /\ statuses' = Append(statuses, CaseStatus(vs))
    /\ UNCHANGED <<summary, suite, pvars, svars, avars, kvars, dvars, evars, tvars, hvars, ovars, nvars>>

\* the end of runTest's loop: BuildSummary, SortCases
BuildSummaryCall ==
    /\ suite = "running"
    /\ ~summary.built
    /\ summary' = BuildSummary(summaries) @@ [built |-> TRUE]
    /\ UNCHANGED <<summaries, statuses, suite, pvars, svars, avars, kvars, dvars, evars, tvars, hvars, ovars, nvars>>

NextSummary ==
    \/ RunTestCase
    \/ BuildSummaryCall

\* ------------------------------------------------------------------------
\* trace.RegexRedactor.  A text is a sequence of characters; a pattern is
\* [name, regex, replaceWith] where regex names one of the expressions of
\* PresetPatterns, matched as Go's regexp matches it (leftmost, greedy).
\* ------------------------------------------------------------------------
UpperCase == <<"A", "B", "C", "D", "E", "F", "G", "H", "I", "J", "K", "L", "M", "N", "O", "P", "Q", "R", "S", "T", "U", "V", "W", "X", "Y", "Z">>

LowerCase == <<"a", "b", "c", "d", "e", "f", "g", "h", "i", "j", "k", "l", "m", "n", "o", "p", "q", "r", "s", "t", "u", "v", "w", "x", "y", "z">>

IsAlpha(c) == \E i \in 1..Len(UpperCase) : c = UpperCase[i] \/ c = LowerCase[i]

IsDigit(c) == c \in {"0", "1", "2", "3", "4", "5", "6", "7", "8", "9"}

\* (?i): the lower-case form of a character
FoldCase(c) ==
    IF \E i \in 1..Len(UpperCase) : c = UpperCase[i]
      THEN LowerCase[CHOOSE i \in 1..Len(UpperCase) : c = UpperCase[i]]
      ELSE c

\* \b looks at word characters
IsWord(c) == IsAlpha(c) \/ IsDigit(c) \/ c = "_"

\* [A-Za-z0-9._%+-]
EmailLocal(c) == IsAlpha(c) \/ IsDigit(c) \/ c \in {".", "_", "%", "+", "-"}

\* [A-Za-z0-9.-]
EmailDomain(c) == IsAlpha(c) \/ IsDigit(c) \/ c \in {".", "-"}

\* [\d\s().-]
PhoneClass(c) == IsDigit(c) \/ c \in {" ", "\n", "\t", "\r", "(", ")", ".", "-"}

\* [^\n\r]
NotNewline(c) == c \notin {"\n", "\r"}

\* the end of the longest run of characters of a class that starts at p
\* (p - 1 when there is none)
RunEnd(t, p, Class(_)) ==
    IF p > Len(t) THEN p - 1
    ELSE CHOOSE e \in (p - 1)..Len(t) :
            /\ \A i \in p..e : Class(t[i])
            /\ e = Len(t) \/ ~Class(t[e + 1])

Largest(S) == CHOOSE x \in S : \A y \in S : y <= x

\* [A-Za-z0-9._%+-]+@[A-Za-z0-9.-]+\.[A-Za-z]{2,} matched at s: the index of
\* its last character, 0 when it does not match there
EmailEnd(t, s) ==
    LET le == RunEnd(t, s, EmailLocal)
        d == le + 2
        de == RunEnd(t, d, EmailDomain)
        dots == {k \in (d + 1)..de : t[k] = "." /\ RunEnd(t, k + 1, IsAlpha) >= k + 2}
    IN  IF le < s \/ le + 1 > Len(t) THEN 0
        ELSE IF t[le + 1] # "@" \/ dots = {} THEN 0
        ELSE RunEnd(t, Largest(dots) + 1, IsAlpha)

\* \+?\d[\d\s().-]{7,}\d matched at s
PhoneEnd(t, s) ==
    LET p == IF t[s] = "+" THEN s + 1 ELSE s
        re == RunEnd(t, p + 1, PhoneClass)
        ends == {e \in (p + 8)..re : IsDigit(t[e])}
    IN  IF p > Len(t) THEN 0
        ELSE IF ~IsDigit(t[p]) \/ ends = {} THEN 0
        ELSE Largest(ends)

\* \b\d{3}-\d{2}-\d{4}\b matched at s
SSNEnd(t, s) ==
    IF /\ s + 10 <= Len(t)
       /\ s = 1 \/ ~IsWord(t[s - 1])
       /\ \A i \in {s, s + 1, s + 2, s + 4, s + 5, s + 7, s + 8, s + 9, s + 10} : IsDigit(t[i])
       /\ t[s + 3] = "-" /\ t[s + 6] = "-"
       /\ s + 10 = Len(t) \/ ~IsWord(t[s + 11])
      THEN s + 10 ELSE 0

\* api[-_ ]?key|secret|token
SecretWords ==
    { <<"a", "p", "i", "k", "e", "y">>,
      <<"a", "p", "i", "-", "k", "e", "y">>,
      <<"a", "p", "i", "_", "k", "e", "y">>,
      <<"a", "p", "i", " ", "k", "e", "y">>,
      <<"s", "e", "c", "r", "e", "t">>,
      <<"t", "o", "k", "e", "n">> }

\* (?i)(api[-_ ]?key|secret|token)[^\n\r]* matched at s
SecretEnd(t, s) ==
    IF \E w \in SecretWords :
          /\ s + Len(w) - 1 <= Len(t)
          /\ \A i \in 1..Len(w) : FoldCase(t[s + i - 1]) = w[i]
      THEN RunEnd(t, s, NotNewline) ELSE 0

MatchEnd(regex, t, s) ==
    CASE regex = "email" -> EmailEnd(t, s)
      [] regex = "phone" -> PhoneEnd(t, s)
      [] regex = "ssn" -> SSNEnd(t, s)
      [] regex = "api_key" -> SecretEnd(t, s)

\* regexp.MatchString
MatchString(regex, t) == \E s \in 1..Len(t) : MatchEnd(regex, t, s) >= s

\* regexp.ReplaceAllString from index i on: every match, left to right, is
\* replaced
RECURSIVE ReplaceAllString(_, _, _, _)
ReplaceAllString(regex, t, repl, i) ==
    IF i > Len(t) THEN <<>>
    ELSE LET e == MatchEnd(regex, t, i)
         IN  IF e >= i THEN repl \o ReplaceAllString(regex, t, repl, e + 1)
             ELSE <<t[i]>> \o ReplaceAllString(regex, t, repl, i + 1)

\* trace.applyPatterns: the loop over the patterns from index k
RECURSIVE applyPatternsFrom(_, _, _, _)
applyPatternsFrom(output, patterns, k, matched) ==
    IF k > Len(patterns) THEN [output |-> output, matched |-> matched]
    ELSE IF MatchString(patterns[k].regex, output)
      THEN applyPatternsFrom(
               ReplaceAllString(patterns[k].regex, output, patterns[k].replaceWith, 1),
               patterns, k + 1, Append(matched, patterns[k].name))
      ELSE applyPatternsFrom(output, patterns, k + 1, matched)

applyPatterns(input, patterns) ==
    IF input = <<>> THEN [output |-> input, matched |-> <<>>]
    ELSE applyPatternsFrom(input, patterns, 1, <<>>)

\* trace.unique: the first occurrences of the non-empty values, in order
unique(values) ==
    SelectSeq([i \in 1..Len(values) |->
                  IF values[i] # "" /\ \A j \in 1..(i - 1) : values[j] # values[i]
                    THEN values[i] ELSE ""],
              LAMBDA v : v # "")

\* the names that fired on each message, one after the other
RECURSIVE MatchedIn(_, _, _)
MatchedIn(msgs, patterns, i) ==
    IF i > Len(msgs) THEN <<>>
    ELSE applyPatterns(msgs[i], patterns).matched \o MatchedIn(msgs, patterns, i + 1)

\* RegexRedactor.Apply: the trace as it leaves, and the returned names;
\* the message contents and the assistant text are rewritten in place, no
\* other field of the trace is touched
Apply(patterns, t) ==
    [trace |-> [t EXCEPT !.Messages = [i \in 1..Len(t.Messages) |->
                                          applyPatterns(t.Messages[i], patterns).output],
                         !.AssistantText = applyPatterns(t.AssistantText, patterns).output],
     applied |-> unique(MatchedIn(t.Messages, patterns, 1)
                        \o applyPatterns(t.AssistantText, patterns).matched)]

EmailPattern == [name |-> "email", regex |-> "email", replaceWith |-> <<"[", "R", "E", "D", "A", "C", "T", "E", "D", "_", "E", "M", "A", "I", "L", "]">>]

PhonePattern == [name |-> "phone", regex |-> "phone", replaceWith |-> <<"[", "R", "E", "D", "A", "C", "T", "E", "D", "_", "P", "H", "O", "N", "E", "]">>]

SSNPattern == [name |-> "ssn", regex |-> "ssn", replaceWith |-> <<"[", "R", "E", "D", "A", "C", "T", "E", "D", "_", "S", "S", "N", "]">>]

SecretPattern == [name |-> "api_key", regex |-> "api_key", replaceWith |-> <<"[", "R", "E", "D", "A", "C", "T", "E", "D", "_", "S", "E", "C", "R", "E", "T", "]">>]

\* trace.PresetPatterns
RECURSIVE PresetPatterns(_)
PresetPatterns(presets) ==
    IF presets = <<>> THEN <<>>
    ELSE (CASE Head(presets) = "pii_basic" -> <<EmailPattern, PhonePattern>>
            [] Head(presets) = "pii_strict" -> <<EmailPattern, PhonePattern, SSNPattern>>
            [] Head(presets) = "secrets" -> <<SecretPattern>>
            [] OTHER -> <<>>)
         \o PresetPatterns(Tail(presets))

\* buildRedactor: the presets' patterns come before the configured ones
buildRedactor(redactCfg) == PresetPatterns(redactCfg.Presets) \o redactCfg.Patterns

\* the redaction configurations: each preset alone, the default presets, a
\* configured pattern of its own, no pattern at all
RedactConfigs ==
    {[Presets |-> ps, Patterns |-> <<>>] :
        ps \in {<<>>, <<"pii_basic">>, <<"pii_strict">>, <<"secrets">>,
                <<"pii_basic", "secrets">>}}
    \cup {[Presets |-> <<"pii_basic">>,
           Patterns |-> <<[name |-> "key", regex |-> "api_key", replaceWith |-> <<"[", "K", "E", "Y", "]">>]>>]}

\* the texts of a trace
TraceTexts ==
    { <<>>,
      <<"h", "i">>,
      <<"a", "@", "b", ".", "i", "o">>,
      <<"+", "1", " ", "5", "5", "5", "-", "1", "2", "3", "-", "4", "5", "6", "7">>,
      <<"1", "2", "3", "-", "4", "5", "-", "6", "7", "8", "9">>,
      <<"m", "y", " ", "t", "o", "k", "e", "n", " ", "a", "b", "c">>,
      <<"x", "\n", "A", "P", "I", " ", "k", "e", "y", ":", " ", "1", "\n", "y">> }

Traces ==
    {[Messages |-> ms, AssistantText |-> a] :
        ms \in UNION {[1..n -> TraceTexts] : n \in 0..MaxMessages}, a \in TraceTexts}

NoTrace == [Messages |-> <<>>, AssistantText |-> <<>>]

IdleRedact ==
    /\ redactor = <<>>
    /\ rtrace = NoTrace
    /\ rbefore = NoTrace
    /\ rapplied = <<>>
    /\ rcount = -1

InitRedactVars ==
    /\ redactor \in {buildRedactor(cfg) : cfg \in RedactConfigs}
    /\ rtrace \in Traces
    /\ rbefore = NoTrace
    /\ rapplied = <<>>
    /\ rcount = 0

\* the recorder's call of Apply on the trace it built
ApplyFirst ==
    /\ rcount = 0
    /\ LET r == Apply(redactor, rtrace)
       IN  /\ rtrace' = r.trace
           /\ rapplied' = r.applied
    /\ rbefore' = rtrace
    /\ rcount' = 1
    /\ UNCHANGED <<redactor, pvars, svars, avars, kvars, dvars, evars, rvars, hvars, ovars, nvars>>

\* Apply on the trace that was already redacted
ApplyAgain ==
    /\ rcount = 1
    /\ LET r == Apply(redactor, rtrace)
       IN  /\ rtrace' = r.trace
           /\ rapplied' = r.applied
    /\ rbefore' = rtrace
    /\ rcount' = 2
    /\ UNCHANGED <<redactor, pvars, svars, avars, kvars, dvars, evars, rvars, hvars, ovars, nvars>>

NextRedact ==
    \/ ApplyFirst
    \/ ApplyAgain

\* the body of the provider's response, which holds the assistant text
RawBody(text) == <<"{", "\"", "c", "o", "n", "t", "e", "n", "t", "\"", ":", "\"">> \o text \o <<"\"", "}">>

\* the traces buildTraceFromCapture and buildTrace make: Raw is the
\* response body the assistant text was parsed from
RawTraces ==
    {[Messages |-> ms, AssistantText |-> a, Raw |-> RawBody(a)] :
        ms \in UNION {[1..n -> TraceTexts] : n \in 0..MaxMessages}, a \in TraceTexts}

\* a recorder with redaction enabled, and the trace of a capture
InitPersistVars ==
    /\ redactor \in {buildRedactor(c) : c \in RedactConfigs}
    /\ rtrace \in RawTraces
    /\ rbefore = NoTrace
    /\ rapplied = <<>>
    /\ rcount = 0

\* handleResponse: Apply, then the trace is appended to the store
NextPersist == ApplyFirst

\* ------------------------------------------------------------------------
\* The request headers in the trace each recorder persists: createTrace of
\* the legacy proxy, buildTraceFromCapture, buildTrace.  A header value list
\* is a sequence of values; strings.Join keeps every value of the list.
\* ------------------------------------------------------------------------
\* strings.ToLower on a header name
HeaderLower(key) ==
    CASE key = "Authorization" -> "authorization"
      [] key = "X-Api-Key" -> "x-api-key"
      [] key = "Api-Key" -> "api-key"
      [] key = "Content-Type" -> "content-type"
      [] OTHER -> key

\* the mutation of flattenHeaders that compares the name as it is
flattenHeadersExact(h) ==
    [key \in DOMAIN h |->
        IF key = "authorization" \/ key = "x-api-key" \/ key = "api-key"
          THEN <<"[REDACTED]">> ELSE h[key]]

\* proxy.flattenHeaders
flattenHeaders(h) ==
    [key \in DOMAIN h |->
        IF HeaderLower(key) = "authorization" \/ HeaderLower(key) = "x-api-key"
           \/ HeaderLower(key) = "api-key"
          THEN <<"[REDACTED]">> ELSE h[key]]

\* the header names of a request: canonical as net/http reads them, and one
\* as a client library may set it
HeaderNames == {"Authorization", "X-Api-Key", "Api-Key", "x-api-key", "Content-Type"}

HeaderValues(key) ==
    IF key = "Content-Type" THEN {<<"application/json">>}
    ELSE {<<"sk-1">>, <<"Bearer sk-1", "sk-2">>}

\* http.Header values of a request
RequestHeaders ==
    UNION {{h \in [keys -> UNION {HeaderValues(k) : k \in keys}] :
               \A k \in keys : h[k] \in HeaderValues(k)} : keys \in SUBSET HeaderNames}

\* the request bodies of the captured calls
RequestBodies == {<<"h", "i">>, <<"m", "y", " ", "t", "o", "k", "e", "n", " ", "a", "b", "c">>}

IdleHeaders ==
    /\ hreq = <<>>
    /\ hredact = FALSE
    /\ hstored = <<>>
    /\ hpc = "idle"

InitHeadersVars ==
    /\ hreq \in RequestHeaders
    /\ hredact \in BOOLEAN
    /\ hstored = <<>>
    /\ hpc = "request"

\* the trace with the Redactor applied when capture.redact.enabled
Redacted(tr) ==
    IF hredact
      THEN LET r == Apply(buildRedactor([Presets |-> <<"pii_basic", "secrets">>,
                                         Patterns |-> <<>>]), tr)
           IN  r.trace @@ [RedactionApplied |-> r.applied]
      ELSE tr @@ [RedactionApplied |-> <<>>]

\* LLMProxy.handleRequest of the legacy proxy: createTrace, then the trace is
\* kept for the trace file
LegacyCreateTrace ==
    /\ hpc = "request"
    /\ \E body \in RequestBodies :
          hstored' = Append(hstored, [recorder |-> "legacy",
                                      Request |-> [Headers |-> flattenHeaders(hreq),
                                                   Body |-> body]])
    /\ hpc' = "stored"
    /\ UNCHANGED <<hreq, hredact, pvars, svars, avars, kvars, dvars, evars, rvars, tvars, ovars, nvars>>

\* ForwardProxyRecorder.handleResponse: buildTraceFromCapture, Apply, Append
ForwardBuildTrace ==
    /\ hpc = "request"
    /\ \E body \in RequestBodies :
          hstored' = Append(hstored,
                            [recorder |-> "forward"]
                            @@ Redacted([Messages |-> <<body>>, AssistantText |-> <<"o", "k">>]))
    /\ hpc' = "stored"
    /\ UNCHANGED <<hreq, hredact, pvars, svars, avars, kvars, dvars, evars, rvars, tvars, ovars, nvars>>

\* ProxyRecorder.handleRequest: buildTrace, Apply, Append
ReverseBuildTrace ==
    /\ hpc = "request"
    /\ \E body \in RequestBodies :
          hstored' = Append(hstored,
                            [recorder |-> "reverse"]
                            @@ Redacted([Messages |-> <<body>>, AssistantText |-> <<"o", "k">>]))
    /\ hpc' = "stored"
    /\ UNCHANGED <<hreq, hredact, pvars, svars, avars, kvars, dvars, evars, rvars, tvars, ovars, nvars>>

NextHeaders ==
    \/ LegacyCreateTrace
    \/ ForwardBuildTrace
    \/ ReverseBuildTrace

\* ------------------------------------------------------------------------
\* The stop-after limit: ProxyRecorder.incrementCount, Stop, Start's serving
\* goroutine, and the recorder runRecord builds.  Each handler goroutine
\* serves one request; a Stop call is a task of its own.
\* ------------------------------------------------------------------------
Handlers == 1..MaxHandlers

\* the mutation of the limit test that fires only past the limit
ReachedPast(c, n) == n > 0 /\ c > n

\* incrementCount: reached := r.stopAfter > 0 && r.count >= r.stopAfter
Reached(c, n) == n > 0 /\ c >= n

\* a connection is active from the request's arrival to the end of its response
ActiveConns == {h \in Handlers : conn[h].pc \notin {"idle", "delivered", "cut"}}

IdleConn == [pc |-> "idle", counted |-> FALSE, reached |-> FALSE]

IdleStop ==
    /\ recorderMode = "none"
    /\ recordStopAfter = 0
    /\ stopAfter = 0
    /\ recCount = 0
    /\ recorded = 0
    /\ conn = <<>>
    /\ recMu = 0
    /\ stopTasks = <<>>
    /\ server = "none"
    /\ done = FALSE

\* the recorder after NewProxyRecorder and Start, serving
Started ==
    /\ recCount = 0
    /\ recorded = 0
    /\ conn = [h \in Handlers |-> IdleConn]
    /\ recMu = 0
    /\ stopTasks = <<>>
    /\ server = "serving"
    /\ done = FALSE

\* a ProxyRecorder on which SetStopAfter(n) was called before Start
InitStopVars ==
    /\ recorderMode = "reverse"
    /\ recordStopAfter = 0
    /\ stopAfter \in 0..MaxStopAfter
    /\ Started

\* runRecord: the --stop-after flag is parsed into recordStopAfter, the
\* recorder of the configured mode is built and started; the flag is read
\* nowhere, so that the ProxyRecorder keeps stopAfter = 0
InitRecordVars ==
    /\ recorderMode \in {"forward", "reverse"}
    /\ recordStopAfter \in 0..MaxStopAfter
    /\ stopAfter = 0
    /\ Started

\* a request is accepted while the listener is open
Accept(h) ==
    /\ server = "serving"
    /\ conn[h].pc = "idle"
    /\ conn' = [conn EXCEPT ![h].pc = "upstream"]
    /\ UNCHANGED <<recorderMode, recordStopAfter, stopAfter, recCount, recorded, recMu,
                   stopTasks, server, done, pvars, svars, avars, kvars, testvars, nvars>>

\* the round trip fails (no upstream, or the ErrorHandler): 502, no capture
BadGateway(h) ==
    /\ conn[h].pc = "upstream"
    /\ conn' = [conn EXCEPT ![h].pc = "delivered"]
    /\ UNCHANGED <<recorderMode, recordStopAfter, stopAfter, recCount, recorded, recMu,
                   stopTasks, server, done, pvars, svars, avars, kvars, testvars, nvars>>

\* the response arrived and the trace is recorded.  ProxyRecorder:
\* incrementCount takes r.mu, adds one and tests the limit.  The forward
\* recorder adds one with no lock: the sum may be taken on a stale count.
CaptureCore(h) ==
    /\ conn[h].pc = "upstream"
    /\ recorded' = recorded + 1
    /\ IF recorderMode = "reverse"
         THEN /\ recMu = 0
              /\ recMu' = h
              /\ recCount' = recCount + 1
              /\ conn' = [conn EXCEPT ![h] = [pc |-> "locked", counted |-> TRUE,
                                             reached |-> Reached(recCount + 1, stopAfter)]]
         ELSE /\ recCount' \in 1..(recCount + 1)
              /\ conn' = [conn EXCEPT ![h] = [pc |-> "respond", counted |-> TRUE,
                                             reached |-> FALSE]]
              /\ UNCHANGED recMu

Capture(h) ==
    /\ CaptureCore(h)
    /\ UNCHANGED <<recorderMode, recordStopAfter, stopAfter, stopTasks, server, done,
                   pvars, svars, avars, kvars, testvars, nvars>>

\* incrementCount: r.mu.Unlock(), then `go r.Stop()` when the limit is reached
UnlockAndSpawn(h) ==
    /\ conn[h].pc = "locked"
    /\ recMu = h
    /\ recMu' = 0
    /\ stopTasks' = IF conn[h].reached THEN Append(stopTasks, "spawned") ELSE stopTasks
    /\ conn' = [conn EXCEPT ![h].pc = "respond"]
    /\ UNCHANGED <<recorderMode, recordStopAfter, stopAfter, recCount, recorded, server, done,
                   pvars, svars, avars, kvars, testvars, nvars>>

\* the handler returns and the response is written to the client; on a
\* connection that server.Close closed the write fails
Respond(h) ==
    /\ conn[h].pc = "respond"
    /\ conn' = [conn EXCEPT ![h].pc = IF server = "closed" THEN "cut" ELSE "delivered"]
    /\ UNCHANGED <<recorderMode, recordStopAfter, stopAfter, recCount, recorded, recMu,
                   stopTasks, server, done, pvars, svars, avars, kvars, testvars, nvars>>

\* runRecord's own Stop call: on Ctrl+C, or when the wrapped command ends
Interrupt ==
    /\ stopTasks = <<>>
    /\ stopTasks' = <<"spawned">>
    /\ UNCHANGED <<recorderMode, recordStopAfter, stopAfter, recCount, recorded, conn, recMu,
                   server, done, pvars, svars, avars, kvars, testvars, nvars>>

\* ForwardProxyRecorder.Stop: server.Close closes the listener and every
\* connection, the active ones included, and returns
CloseNow(k) ==
    /\ recorderMode = "forward"
    /\ stopTasks[k] = "spawned"
    /\ stopTasks' = [stopTasks EXCEPT ![k] = "returned"]
    /\ server' = "closed"
    /\ UNCHANGED <<recorderMode, recordStopAfter, stopAfter, recCount, recorded, conn, recMu,
                   done, pvars, svars, avars, kvars, testvars, nvars>>

\* ProxyRecorder.Stop: server.Shutdown closes the listener
ShutdownBegin(k) ==
    /\ recorderMode = "reverse"
    /\ stopTasks[k] = "spawned"
    /\ stopTasks' = [stopTasks EXCEPT ![k] = "waiting"]
    /\ server' = "shutdown"
    /\ UNCHANGED <<recorderMode, recordStopAfter, stopAfter, recCount, recorded, conn, recMu,
                   done, pvars, svars, avars, kvars, testvars, nvars>>

\* Shutdown returns when no connection is active, or when the five seconds
\* of its context are over
ShutdownReturn(k) ==
    /\ stopTasks[k] = "waiting"
    /\ \/ /\ ActiveConns = {}
          /\ stopTasks' = [stopTasks EXCEPT ![k] = "returned"]
       \/ /\ ActiveConns # {}
          /\ stopTasks' = [stopTasks EXCEPT ![k] = "timedout"]
    /\ UNCHANGED <<recorderMode, recordStopAfter, stopAfter, recCount, recorded, conn, recMu,
                   server, done, pvars, svars, avars, kvars, testvars, nvars>>

\* Start's goroutine: ListenAndServe returns once Shutdown was called, and
\* done is closed
ServeReturn ==
    /\ server = "shutdown"
    /\ ~done
    /\ done' = TRUE
    /\ UNCHANGED <<recorderMode, recordStopAfter, stopAfter, recCount, recorded, conn, recMu,
                   stopTasks, server, pvars, svars, avars, kvars, testvars, nvars>>

\* the steps of the recorder's goroutines
RecorderStep ==
    \/ \E h \in Handlers : BadGateway(h) \/ Capture(h) \/ UnlockAndSpawn(h) \/ Respond(h)
    \/ \E k \in 1..Len(stopTasks) : CloseNow(k) \/ ShutdownBegin(k) \/ ShutdownReturn(k)
    \/ ServeReturn

NextStop ==
    \/ \E h \in Handlers : Accept(h)
    \/ \E h \in Handlers : BadGateway(h)
    \/ \E h \in Handlers : Capture(h)
    \/ \E h \in Handlers : UnlockAndSpawn(h)
    \/ \E h \in Handlers : Respond(h)
    \/ \E k \in 1..Len(stopTasks) : ShutdownBegin(k)
    \/ \E k \in 1..Len(stopTasks) : ShutdownReturn(k)
    \/ ServeReturn

NextRecord ==
    \/ NextStop
    \/ Interrupt
    \/ \E k \in 1..Len(stopTasks) : CloseNow(k)

\* ------------------------------------------------------------------------
\* The commands `regrada baseline` and `regrada test`: runBaseline, runTest,
\* resolveSampling, and the LocalStore of baseline snapshots.
\* ------------------------------------------------------------------------
\* no exit yet: the command is running
NoExit == -1

\* what os.ReadFile and json.Unmarshal make of the file at a path
SnapshotPath(baseDirName, caseID, baselineKey) == <<baseDirName, caseID, baselineKey, ".json">>

\* the mutation of LocalStore.Load that reads under the slug of the case id
LoadSlugPath(dir, baseDirName, caseID, baselineKey) ==
    LET path == SnapshotPath(baseDirName, <<"slug">> \o <<caseID>>, baselineKey)
    IN  IF path \notin DOMAIN dir THEN [err |-> "not exist"]
        ELSE IF dir[path].kind = "unreadable" THEN [err |-> "permission denied"]
        ELSE IF dir[path].kind = "corrupt" THEN [err |-> "invalid character"]
        ELSE [err |-> "", b |-> dir[path].b]

\* LocalStore.Load: os.ReadFile fails when the file is missing or cannot be
\* read, json.Unmarshal fails when it does not hold a JSON document
Load(dir, baseDirName, caseID, baselineKey) ==
    LET path == SnapshotPath(baseDirName, caseID, baselineKey)
    IN  IF path \notin DOMAIN dir THEN [err |-> "not exist"]
        ELSE IF dir[path].kind = "unreadable" THEN [err |-> "permission denied"]
        ELSE IF dir[path].kind = "corrupt" THEN [err |-> "invalid character"]
        ELSE [err |-> "", b |-> dir[path].b]

\* LocalStore.Save: MkdirAll, CanonicalJSON, os.WriteFile, which fails on a
\* file it may not write and replaces any other content
Save(dir, baseDirName, caseID, baselineKey, b) ==
    LET path == SnapshotPath(baseDirName, caseID, baselineKey)
    IN  IF path \in DOMAIN dir /\ dir[path].kind = "unreadable"
          THEN [err |-> "permission denied", dir |-> dir]
          ELSE [err |-> "",
                dir |-> [p \in DOMAIN dir \cup {path} |->
                            IF p = path THEN [kind |-> "valid", b |-> b] ELSE dir[p]]]

\* cmd.resolveSampling: the parameters of the case's request, else the
\* case's sampling, else the defaults of the settings
resolveSampling(c, settings) ==
    IF c.Params.addr # 0
      THEN [addr |-> 3, Temperature |-> c.Params.Temperature, TopP |-> c.Params.TopP,
            MaxOutputTokens |-> c.Params.MaxOutputTokens, Stop |-> c.Params.Stop]
    ELSE IF c.Sampling.addr # 0
      THEN [addr |-> 3, Temperature |-> c.Sampling.Temperature, TopP |-> c.Sampling.TopP,
            MaxOutputTokens |-> c.Sampling.MaxOutputTokens, Stop |-> NilSlice]
    ELSE settings.Sampling

\* cmd.extractSystemPrompt: the system messages of the case, joined
extractSystemPrompt(c) == c.System

\* the arguments runBaseline, runAccept and runTest give baseline.Key
KeyOf(config, c, settings) ==
    Key([provider |-> config.Provider, model |-> config.Model,
         params |-> resolveSampling(c, settings), system |-> extractSystemPrompt(c),
         order |-> <<"provider", "model", "params", "system">>])

\* the EvalSettings a command builds: its own number of runs, the sampling
\* defaults of the configuration
EvalSettings(config, runs) ==
    [Runs |-> runs,
     Sampling |-> [addr |-> 4, Temperature |-> config.Sampling.Temperature,
                   TopP |-> config.Sampling.TopP,
                   MaxOutputTokens |-> config.Sampling.MaxOutputTokens, Stop |-> NilSlice]]

\* RunCase, a run whose provider.Execute returned an error (a failure of
\* the call, or the timeout of the run's context)
FailedRun(msg) ==
    [Pass |-> FALSE, OutputText |-> <<>>, LatencyMS |-> 0, Refused |-> FALSE,
     JSONValid |-> FALSE, Error |-> msg]

\* the outcomes of one run of RunCase
RunOutcomes ==
    {r @@ [Error |-> IF r.Pass THEN "" ELSE "assertion failed"] : r \in TestRuns}
    \cup {FailedRun("provider error"), FailedRun("context deadline exceeded")}

\* RunCase's loop: the number of runs of the settings, one when it is not
\* positive
RunsOf(settings) == IF settings.Runs <= 0 THEN 1 ELSE settings.Runs

ProviderFailed(runs) ==
    \E j \in 1..Len(runs) : runs[j].Error \in {"provider error", "context deadline exceeded"}

\* cmd.shouldFail
shouldFail(config, built) ==
    \E j \in 1..Len(built.Cases) :
        \E k \in 1..Len(built.Cases[j].Violations) :
            built.Cases[j].Violations[k].Severity \in config.FailOn

\* the cases the commands discover
SuiteCases ==
    { [ID |-> "greeting", Tags |-> {"smoke"}, Params |-> NilParams, Sampling |-> NilParams,
       System |-> ""],
      [ID |-> "refund", Tags |-> {},
       Params |-> [NilParams EXCEPT !.addr = 1, !.Temperature = Some(0),
                                    !.Stop = [isNil |-> FALSE, elems |-> <<"END">>]],
       Sampling |-> [NilParams EXCEPT !.addr = 2, !.Temperature = Some(1)],
       System |-> "Be brief."],
      [ID |-> "tone", Tags |-> {"smoke"}, Params |-> NilParams,
       Sampling |-> [NilParams EXCEPT !.addr = 2, !.TopP = Some(1)], System |-> ""] }

CaseLists ==
    {l \in UNION {[1..n -> SuiteCases] : n \in 1..MaxCases} :
        \A i, j \in 1..Len(l) : i # j => l[i].ID # l[j].ID}

\* the configurations: the refusal-rate policy fails a case a run of which
\* refuses
ProjectConfigs ==
    [Provider : {"openai"}, Model : {<<"G", "P", "T", " ", "4", "o">>},
     SnapshotDir : {".regrada/baselines"},
     Sampling : {[Temperature |-> Some(0), TopP |-> NilPtr, MaxOutputTokens |-> NilPtr]},
     Runs : {MaxRuns},
     Policies : {<<>>,
                 <<[ID |-> "1", Severity |-> "error", Scope |-> NilScope,
                    Check |-> [NoCheck EXCEPT !.Type = "refusal_rate",
                                              !.Max = Some(Rate(0, 1))]]>>},
     FailOn : {{"error"}}]

\* what the snapshot directory can hold for a case before a command runs:
\* nothing, a snapshot under the key of the case, a snapshot under another
\* key, a file that is no JSON, a file that cannot be read
SnapshotStates == {"absent", "valid", "other key", "corrupt", "unreadable"}

OldBaseline(config, c, key) ==
    FromResult(RunCase(c.ID, config.Provider,
                       <<[Pass |-> TRUE, OutputText |-> <<"o", "k">>, LatencyMS |-> 120,
                          Refused |-> FALSE, JSONValid |-> TRUE, Error |-> ""]>>),
               key.key, key.hash)

SnapshotDirs(config, cs) ==
    { [p \in {SnapshotPath(config.SnapshotDir, cs[i].ID,
                           IF st[i] = "other key" THEN <<"other">>
                           ELSE KeyOf(config, cs[i], EvalSettings(config, 1)).key) :
                 i \in {j \in 1..Len(cs) : st[j] # "absent"}} |->
          LET i == CHOOSE j \in 1..Len(cs) : p[2] = cs[j].ID
          IN  IF st[i] \in {"corrupt", "unreadable"} THEN [kind |-> st[i]]
              ELSE [kind |-> "valid",
                    b |-> OldBaseline(config, cs[i],
                                      KeyOf(config, cs[i], EvalSettings(config, 1)))]] :
      st \in [1..Len(cs) -> SnapshotStates] }

NoCommand == [name |-> "", i |-> 0, exit |-> NoExit]

IdleCmd ==
    /\ projectCfg = <<>>
    /\ caseList = <<>>
    /\ snapshots = <<>>
    /\ command = NoCommand

\* a command that starts on a loaded configuration and the cases found
StartOf(name) ==
    [name |-> name, i |-> 1, exit |-> NoExit, summaries |-> <<>>, providerErr |-> FALSE,
     loadErr |-> "", key |-> <<>>, after |-> ""]

InitCmdVars ==
    /\ projectCfg \in ProjectConfigs
    /\ caseList \in CaseLists
    /\ snapshots \in SnapshotDirs(projectCfg, caseList)
    /\ command \in {StartOf("baseline"), StartOf("test")}

\* one turn of runBaseline's loop: RunCase with one run, Key, FromResult,
\* Save; a failed Save ends the command with code 1
BaselineCase ==
    /\ command.name = "baseline"
    /\ command.exit = NoExit
    /\ command.i <= Len(caseList)
    /\ LET c == caseList[command.i]
           settings == EvalSettings(projectCfg, 1) IN
       \E runs \in [1..RunsOf(settings) -> RunOutcomes] :
          LET res == RunCase(c.ID, projectCfg.Provider, runs)
              k == KeyOf(projectCfg, c, settings)
              saved == Save(snapshots, projectCfg.SnapshotDir, c.ID, k.key,
                            FromResult(res, k.key, k.hash))
          IN  /\ snapshots' = saved.dir
              /\ command' = [command EXCEPT
                                !.i = IF saved.err = "" THEN @ + 1 ELSE @,
                                !.exit = IF saved.err = "" THEN NoExit ELSE 1,
                                !.key = k.key,
                                !.providerErr = @ \/ ProviderFailed(runs)]
    /\ UNCHANGED <<projectCfg, caseList, notCmd, pvars, svars, avars, kvars, testvars, ovars>>

\* runBaseline after its loop
BaselineEnd ==
    /\ command.name = "baseline"
    /\ command.exit = NoExit
    /\ command.i > Len(caseList)
    /\ command' = [command EXCEPT !.exit = 0]
    /\ UNCHANGED <<projectCfg, caseList, snapshots, notCmd, pvars, svars, avars, kvars, testvars, ovars>>

\* `regrada test` is run after `regrada baseline` ended, on the same
\* configuration and cases
TestAfterBaseline ==
    /\ command.name = "baseline"
    /\ command.exit # NoExit
    /\ command' = [StartOf("test") EXCEPT
                      !.after = IF command.exit = 0 THEN "baseline ok" ELSE "baseline failed"]
    /\ UNCHANGED <<projectCfg, caseList, snapshots, notCmd, pvars, svars, avars, kvars, testvars, ovars>>

\* one turn of runTest's loop: RunCase, Key, Load (any error ends the
\* command with code 4), Diff, Evaluate, the case summary
TestCase ==
    /\ command.name = "test"
    /\ command.exit = NoExit
    /\ command.i <= Len(caseList)
    /\ LET c == caseList[command.i]
           settings == EvalSettings(projectCfg, projectCfg.Runs) IN
       \E runs \in [1..RunsOf(settings) -> RunOutcomes] :
          LET res == RunCase(c.ID, projectCfg.Provider, runs)
              k == KeyOf(projectCfg, c, settings)
              loaded1 == Load(snapshots, projectCfg.SnapshotDir, c.ID, k.key)
          IN  IF loaded1.err # ""
                THEN command' = [command EXCEPT !.exit = 4, !.loadErr = loaded1.err,
                                                !.key = k.key,
                                                !.providerErr = @ \/ ProviderFailed(runs)]
                ELSE LET b == [loaded1.b EXCEPT !.ParamsHash = k.hash]
                         d == Diff(res, b)
                     IN  command' = [command EXCEPT
                            !.i = @ + 1,
                            !.key = k.key,
                            !.providerErr = @ \/ ProviderFailed(runs),
                            !.summaries = Append(@, [CaseID |-> c.ID,
                                             Violations |-> Evaluate(projectCfg.Policies, c, res, d)])]
    /\ UNCHANGED <<projectCfg, caseList, snapshots, notCmd, pvars, svars, avars, kvars, testvars, ovars>>

\* runTest after its loop: BuildSummary, SortCases, the reports (a report
\* that cannot be written ends the command with code 1), shouldFail
TestEnd ==
    /\ command.name = "test"
    /\ command.exit = NoExit
    /\ command.i > Len(caseList)
    /\ \E reportErr \in BOOLEAN :
          command' = [command EXCEPT
                         !.exit = IF reportErr THEN 1
                                  ELSE IF shouldFail(projectCfg, BuildSummary(command.summaries))
                                    THEN 2 ELSE 0]
    /\ UNCHANGED <<projectCfg, caseList, snapshots, notCmd, pvars, svars, avars, kvars, testvars, ovars>>

NextCmd ==
    \/ BaselineCase
    \/ BaselineEnd
    \/ TestAfterBaseline
    \/ TestCase
    \/ TestEnd

\* ------------------------------------------------------------------------
\* The recording session: NewSession, AddTrace, Finalize, SaveSession.
\* ------------------------------------------------------------------------
\* the ids a trace can have; EmptyID is the empty string
SessionIDs == EmptyID..MaxIDs

\* NewSession, with what the model remembers of the calls made since:
\* before is the id list the last Finalize was given, finalizes the number
\* of Finalize calls made since the last AddTrace
NewSession(t) ==
    [StartTime |-> t, EndTime |-> ZeroTime, TraceIDs |-> <<>>, before |-> <<>>,
     finalizes |-> 0]

NoSavedSession == [EndTime |-> ZeroTime, TraceIDs |-> <<>>, saved |-> FALSE]

InitSessionVars ==
    /\ session \in {NewSession(t) : t \in Times}
    /\ savedSession = NoSavedSession
    /\ recordMain = "idle"

\* Session.AddTrace
SessionAddTrace ==
    /\ Len(session.TraceIDs) < MaxAdds
    /\ \E id \in SessionIDs :
          session' = [session EXCEPT !.TraceIDs = AddTrace(@, id), !.finalizes = 0]
    /\ UNCHANGED <<savedSession, recordMain, notSession, pvars, svars, avars, kvars, testvars,
                   ovars>>

\* Session.Finalize: time.Now() is not before the start of the session
Finalize ==
    /\ session.finalizes < 2
    /\ \E t \in Times :
          /\ t >= session.StartTime
          /\ t >= session.EndTime
          /\ session' = [session EXCEPT !.EndTime = t,
                                        !.TraceIDs = uniqueSorted(@),
                                        !.before = session.TraceIDs,
                                        !.finalizes = @ + 1]
    /\ UNCHANGED <<savedSession, recordMain, notSession, pvars, svars, avars, kvars, testvars,
                   ovars>>

\* SaveSession writes the session as it is
SaveSession ==
    /\ savedSession' = [EndTime |-> session.EndTime, TraceIDs |-> session.TraceIDs,
                        saved |-> TRUE]
    /\ UNCHANGED <<session, recordMain, notSession, pvars, svars, avars, kvars, testvars,
                   ovars>>

NextSession ==
    \/ SessionAddTrace
    \/ Finalize
    \/ SaveSession

\* ------------------------------------------------------------------------
\* Request and response parsing of the recorders: parseRequest,
\* parseResponse, extractContentBlocks, buildTrace, buildTraceFromCapture.
\* A body is its bytes (raw) and the document json.Unmarshal decodes from
\* them; a document is a string, a number, an array or an object.
\* ------------------------------------------------------------------------
Str(s) == [t |-> "string", v |-> s]

Num(n) == [t |-> "number", v |-> n]

Arr(items) == [t |-> "array", v |-> items]

Obj(fields) == [t |-> "object", v |-> fields]

\* the bytes are no JSON document
Invalid == [t |-> "invalid"]

\* the value of a key the object does not have
Absent == [t |-> "absent"]

\* payload[k] of a map[string]any
Get(obj, k) == IF k \in DOMAIN obj.v THEN obj.v[k] ELSE Absent

\* an object with the keys that are given a value
Fields(names, vals) == [k \in {n \in names : vals[n] # Absent} |-> vals[k]]

\* extractContentBlocks from index i: the text of every block that is an
\* object with a string under "text", joined with no separator
RECURSIVE extractContentBlocksFrom(_, _)
extractContentBlocksFrom(blocks, i) ==
    IF i > Len(blocks) THEN <<>>
    ELSE (IF blocks[i].t = "object" /\ Get(blocks[i], "text").t = "string"
            THEN Get(blocks[i], "text").v ELSE <<>>)
         \o extractContentBlocksFrom(blocks, i + 1)

extractContentBlocks(blocks) == extractContentBlocksFrom(blocks, 1)

\* record.parseResponse: json.Unmarshal into a map fails on anything but an
\* object; the first shape whose types match is returned, empty or not
parseResponse(body) ==
    IF body.json.t # "object" THEN <<>>
    ELSE LET payload == body.json
             choices == Get(payload, "choices")
             choice == IF choices.t = "array" /\ Len(choices.v) > 0 /\ choices.v[1].t = "object"
                         THEN choices.v[1] ELSE Obj(<<>>)
             message == IF Get(choice, "message").t = "object"
                          THEN Get(choice, "message") ELSE Obj(<<>>)
         IN  IF Get(message, "content").t = "string" THEN Get(message, "content").v
             ELSE IF Get(choice, "text").t = "string" THEN Get(choice, "text").v
             ELSE IF Get(payload, "content").t = "string" THEN Get(payload, "content").v
             ELSE IF Get(payload, "content").t = "array"
               THEN extractContentBlocks(Get(payload, "content").v)
             ELSE <<>>

\* parseRequest's loop over payload["messages"] from index i
RECURSIVE messagesFrom(_, _)
messagesFrom(rawMessages, i) ==
    IF i > Len(rawMessages) THEN <<>>
    ELSE LET item == rawMessages[i]
             role == IF item.t = "object" /\ Get(item, "role").t = "string"
                       THEN Get(item, "role").v ELSE <<>>
             content == IF item.t # "object" THEN <<>>
                        ELSE IF Get(item, "content").t = "string" THEN Get(item, "content").v
                        ELSE IF Get(item, "content").t = "array"
                          THEN extractContentBlocks(Get(item, "content").v)
                        ELSE <<>>
         IN  (IF role # <<>> /\ content # <<>>
                THEN <<[Role |-> role, Content |-> content]>> ELSE <<>>)
             \o messagesFrom(rawMessages, i + 1)

\* record.parseRequest: (messages, params, model)
parseRequest(body) ==
    IF body.json.t # "object" THEN [messages |-> <<>>, params |-> NilParams, model |-> <<>>]
    ELSE LET payload == body.json
             fromMessages == IF Get(payload, "messages").t = "array"
                               THEN messagesFrom(Get(payload, "messages").v, 1) ELSE <<>>
             messages == IF Len(fromMessages) = 0 /\ Get(payload, "prompt").t = "string"
                           THEN <<[Role |-> <<"user">>, Content |-> Get(payload, "prompt").v]>>
                           ELSE fromMessages
             temperature == IF Get(payload, "temperature").t = "number"
                              THEN Some(Get(payload, "temperature").v) ELSE NilPtr
             topP == IF Get(payload, "top_p").t = "number"
                       THEN Some(Get(payload, "top_p").v) ELSE NilPtr
             maxOutputTokens ==
                IF Get(payload, "max_tokens").t = "number"
                  THEN Some(Get(payload, "max_tokens").v)
                ELSE IF Get(payload, "max_output_tokens").t = "number"
                  THEN Some(Get(payload, "max_output_tokens").v) ELSE NilPtr
             stop == IF Get(payload, "stop").t = "array" /\ Len(Get(payload, "stop").v) > 0
                       THEN [isNil |-> FALSE, elems |-> Get(payload, "stop").v] ELSE NilSlice
             params == IF temperature = NilPtr /\ topP = NilPtr /\ maxOutputTokens = NilPtr
                          /\ stop = NilSlice
                         THEN NilParams
                         ELSE [addr |-> 1, Temperature |-> temperature, TopP |-> topP,
                               MaxOutputTokens |-> maxOutputTokens, Stop |-> stop]
         IN  [messages |-> messages, params |-> params,
              model |-> IF Get(payload, "model").t = "string" THEN Get(payload, "model").v
                        ELSE <<>>]

\* ProxyRecorder.buildTrace: with no message parsed, a body that is not
\* empty becomes one user message
buildTrace(requestBody, responseBody) ==
    LET p == parseRequest(requestBody)
    IN  [Model |-> p.model,
         Messages |-> IF Len(p.messages) = 0 /\ Len(requestBody.raw) > 0
                        THEN <<[Role |-> <<"user">>, Content |-> requestBody.raw]>>
                        ELSE p.messages,
         Params |-> p.params,
         AssistantText |-> parseResponse(responseBody), Raw |-> responseBody.raw]

\* ForwardProxyRecorder.buildTraceFromCapture
buildTraceFromCapture(requestBody, responseBody) ==
    LET p == parseRequest(requestBody)
    IN  [Model |-> p.model, Messages |-> p.messages, Params |-> p.params,
         AssistantText |-> parseResponse(responseBody), Raw |-> responseBody.raw]

\* the texts of the bodies
Hi == <<"h", "i">>

\* the response bodies: no JSON, JSON that is no object, and objects with
\* each shape present or not, with a text or an empty one
ChoiceValues ==
    {Str(Hi)} \cup
    {Obj(Fields({"message", "text"}, [message |-> m, text |-> x])) :
        m \in {Absent, Obj([content |-> Str(<<>>)]), Obj([content |-> Str(<<"m">>)]),
               Obj([content |-> Num(1)])},
        x \in {Absent, Str(<<>>), Str(<<"x">>)}}

ContentValues ==
    {Absent, Str(<<>>), Str(<<"c">>), Arr(<<>>), Arr(<<Str(Hi)>>),
     Arr(<<Obj([text |-> Str(<<"a">>)]), Obj([type |-> Str(<<"t">>)]),
           Obj([text |-> Str(<<"b">>)])>>)}

ResponseBodies ==
    {[raw |-> <<>>, json |-> Invalid], [raw |-> <<"<", ">">>, json |-> Invalid],
     [raw |-> <<"[", "]">>, json |-> Arr(<<>>)]}
    \cup {[raw |-> <<"{", "}">>,
           json |-> Obj(Fields({"choices", "content"}, [choices |-> ch, content |-> co]))] :
            ch \in {Absent, Arr(<<>>)} \cup {Arr(<<c>>) : c \in ChoiceValues},
            co \in ContentValues}

\* the request bodies: no body, bytes that are no JSON, JSON that is no
\* object, and objects with messages, a prompt, neither or both
MessageValues ==
    {Absent, Str(Hi), Arr(<<>>),
     Arr(<<Obj([role |-> Str(<<"user">>), content |-> Str(Hi)])>>),
     Arr(<<Obj([role |-> Str(<<>>), content |-> Str(Hi)])>>),
     Arr(<<Obj([role |-> Str(<<"user">>), content |-> Str(<<>>)])>>),
     Arr(<<Str(Hi), Obj([role |-> Str(<<"user">>),
                         content |-> Arr(<<Obj([text |-> Str(Hi)])>>)])>>)}

RequestJSONBodies ==
    {[raw |-> <<>>, json |-> Invalid], [raw |-> Hi, json |-> Invalid],
     [raw |-> <<"7">>, json |-> Num(7)]}
    \cup {[raw |-> <<"{", "}">>,
           json |-> Obj(Fields({"messages", "prompt", "temperature", "model"},
                               [messages |-> m, prompt |-> p, temperature |-> t,
                                model |-> Str(<<"gpt">>)]))] :
            m \in MessageValues, p \in {Absent, Str(<<>>), Str(<<"p">>), Num(1)},
            t \in {Absent, Num(0)}}

NoParse == [recorder |-> "", done |-> FALSE]

InitParseVars ==
    \E rq \in RequestJSONBodies, rs \in ResponseBodies :
        parsed = [recorder |-> "", done |-> FALSE, requestBody |-> rq, responseBody |-> rs]

\* the reverse recorder builds the trace of the capture
BuildTraceCall ==
    /\ parsed.recorder = ""
    /\ ~parsed.done
    /\ parsed' = [parsed EXCEPT !.recorder = "reverse", !.done = TRUE]
                   @@ [trace |-> buildTrace(parsed.requestBody, parsed.responseBody)]
    /\ UNCHANGED <<notParse, pvars, svars, avars, kvars, testvars, ovars>>

\* the forward recorder builds the trace of the capture
BuildTraceFromCaptureCall ==
    /\ parsed.recorder = ""
    /\ ~parsed.done
    /\ parsed' = [parsed EXCEPT !.recorder = "forward", !.done = TRUE]
                   @@ [trace |-> buildTraceFromCapture(parsed.requestBody, parsed.responseBody)]
    /\ UNCHANGED <<notParse, pvars, svars, avars, kvars, testvars, ovars>>

NextParse ==
    \/ BuildTraceCall
    \/ BuildTraceFromCaptureCall

\* ------------------------------------------------------------------------
\* The end of `regrada record`: runRecord and runWithProxy call Stop,
\* Session.Finalize and SaveSession and return, while the handler
\* goroutines of the recorder run on.  The trace of handler h has the id h.
\* ------------------------------------------------------------------------
InitFinalizeVars ==
    /\ session \in {NewSession(t) : t \in Times}
    /\ savedSession = NoSavedSession
    /\ recordMain = "waiting"

\* the process runs until runRecord has returned
Running == recordMain # "exited"

\* handleResponse, ModifyResponse: the trace is appended to the store, its
\* id added to the session and the trace counted
CaptureAndAdd(h) ==
    /\ Running
    /\ CaptureCore(h)
    /\ session' = [session EXCEPT !.TraceIDs = AddTrace(@, h)]
    /\ UNCHANGED <<recorderMode, recordStopAfter, stopAfter, stopTasks, server, done,
                   savedSession, recordMain, notSession, pvars, svars, avars, kvars, testvars>>

\* the signal arrived, or command.Wait() returned: recorder.Stop() is called
MainStop ==
    /\ recordMain = "waiting"
    /\ recordMain' = "stopping"
    /\ stopTasks' = Append(stopTasks, "spawned")
    /\ UNCHANGED <<recorderMode, recordStopAfter, stopAfter, recCount, recorded, conn, recMu,
                   server, done, session, savedSession, notSession, pvars, svars, avars,
                   kvars, testvars>>

\* Stop has returned: session.Finalize()
MainFinalize ==
    /\ recordMain = "stopping"
    /\ stopTasks[1] \in {"returned", "timedout"}
    /\ recordMain' = "finalized"
    /\ \E t \in Times :
          /\ t >= session.StartTime
          /\ session' = [session EXCEPT !.EndTime = t,
                                        !.TraceIDs = uniqueSorted(@),
                                        !.before = session.TraceIDs,
                                        !.finalizes = @ + 1]
    /\ UNCHANGED <<savedSession, notSession, pvars, svars, avars, kvars, testvars, ovars>>

\* record.SaveSession(cfg.Record.SessionDir, session)
MainSave ==
    /\ recordMain = "finalized"
    /\ recordMain' = "saved"
    /\ savedSession' = [EndTime |-> session.EndTime, TraceIDs |-> session.TraceIDs,
                        saved |-> TRUE]
    /\ UNCHANGED <<session, notSession, pvars, svars, avars, kvars, testvars, ovars>>

\* runRecord returns and the process ends, with every goroutine
MainReturn ==
    /\ recordMain = "saved"
    /\ recordMain' = "exited"
    /\ UNCHANGED <<session, savedSession, notSession, pvars, svars, avars, kvars, testvars,
                   ovars>>

NextFinalize ==
    \/ \E h \in Handlers : Running /\ Accept(h)
    \/ \E h \in Handlers : Running /\ BadGateway(h)
    \/ \E h \in Handlers : CaptureAndAdd(h)
    \/ \E h \in Handlers : Running /\ UnlockAndSpawn(h)
    \/ \E h \in Handlers : Running /\ Respond(h)
    \/ MainStop
    \/ \E k \in 1..Len(stopTasks) : Running /\ CloseNow(k)
    \/ \E k \in 1..Len(stopTasks) : Running /\ ShutdownBegin(k)
    \/ \E k \in 1..Len(stopTasks) : Running /\ ShutdownReturn(k)
    \/ Running /\ ServeReturn
    \/ MainFinalize
    \/ MainSave
    \/ MainReturn

IdleSession ==
    /\ session = <<>>
    /\ savedSession = <<>>
    /\ recordMain = "idle"

IdleParse == parsed = NoParse

IdleNew == IdleCmd /\ IdleSession /\ IdleParse

IdleLater == IdleDiff /\ IdlePolicy /\ IdleSummary /\ IdleRedact /\ IdleHeaders /\ IdleStop /\ IdleNew

\* ------------------------------------------------------------------------
\* Specifications
\* ------------------------------------------------------------------------
InitProxyAll == InitProxy /\ IdleStore /\ IdleAppend /\ IdleKey /\ IdleLater

IdleProxy ==
    /\ mode = "forward"
    /\ AllowHosts = {}
    /\ upstreamSet = TRUE
    /\ req = [r \in Slots |-> IdleReq]
    /\ store = <<>>
    /\ appendErrs = {}
    /\ TraceIDs = <<>>
    /\ count = 0
    /\ traces = <<>>
    /\ run = "running"

InitStore == InitStoreVars /\ IdleProxy /\ IdleAppend /\ IdleKey /\ IdleLater

InitAppend == IdleAppend /\ IdleProxy /\ IdleStore /\ IdleKey /\ IdleLater

InitKey == InitKeyVars /\ IdleProxy /\ IdleStore /\ IdleAppend /\ IdleLater

SpecProxy == InitProxyAll /\ [][NextProxy]_vars

SpecStore == InitStore /\ [][NextStore]_vars

SpecAppend == InitAppend /\ [][NextAppend]_vars

SpecKey == InitKey /\ [][NextKey]_vars

IdleEarlier == IdleProxy /\ IdleStore /\ IdleAppend /\ IdleKey

InitDiff == InitDiffVars /\ IdleEarlier /\ IdlePolicy /\ IdleSummary /\ IdleRedact /\ IdleHeaders /\ IdleStop /\ IdleNew

InitPolicy == InitPolicyVars /\ IdleEarlier /\ IdleDiff /\ IdleSummary /\ IdleRedact /\ IdleHeaders /\ IdleStop /\ IdleNew

InitSummary == InitSummaryVars /\ IdleEarlier /\ IdleDiff /\ IdlePolicy /\ IdleRedact /\ IdleHeaders /\ IdleStop /\ IdleNew

InitRedact == InitRedactVars /\ IdleEarlier /\ IdleDiff /\ IdlePolicy /\ IdleSummary /\ IdleHeaders /\ IdleStop /\ IdleNew

SpecRedact == InitRedact /\ [][NextRedact]_vars

InitPersist == InitPersistVars /\ IdleEarlier /\ IdleDiff /\ IdlePolicy /\ IdleSummary /\ IdleHeaders /\ IdleStop /\ IdleNew

SpecPersist == InitPersist /\ [][NextPersist]_vars

InitHeaders == InitHeadersVars /\ IdleEarlier /\ IdleDiff /\ IdlePolicy /\ IdleSummary /\ IdleRedact /\ IdleStop /\ IdleNew

SpecHeaders == InitHeaders /\ [][NextHeaders]_vars

IdleTest == IdleDiff /\ IdlePolicy /\ IdleSummary /\ IdleRedact /\ IdleHeaders

InitStop == InitStopVars /\ IdleEarlier /\ IdleTest /\ IdleNew

\* every goroutine of the recorder that can take a step takes one in the end
SpecStop == InitStop /\ [][NextStop]_vars /\ WF_vars(RecorderStep)

InitRecord == InitRecordVars /\ IdleEarlier /\ IdleTest /\ IdleNew

SpecRecord == InitRecord /\ [][NextRecord]_vars /\ WF_vars(RecorderStep)

SpecSummary == InitSummary /\ [][NextSummary]_vars

IdleOld == IdleEarlier /\ IdleTest /\ IdleStop

InitCmd == InitCmdVars /\ IdleOld /\ IdleSession /\ IdleParse

SpecCmd == InitCmd /\ [][NextCmd]_vars

InitSession == InitSessionVars /\ IdleOld /\ IdleCmd /\ IdleParse

SpecSession == InitSession /\ [][NextSession]_vars

InitParse == InitParseVars /\ IdleOld /\ IdleCmd /\ IdleSession

SpecParse == InitParse /\ [][NextParse]_vars

InitFinalize ==
    /\ InitRecordVars /\ InitFinalizeVars
    /\ IdleEarlier /\ IdleTest /\ IdleCmd /\ IdleParse

SpecFinalize == InitFinalize /\ [][NextFinalize]_vars

SpecPolicy == InitPolicy /\ [][NextPolicy]_vars

SpecDiff == InitDiff /\ [][NextDiff]_vars

\* ------------------------------------------------------------------------
\* Claims
\* ------------------------------------------------------------------------

\* the allow-list has an entry neither for the destination as the client
\* gave it nor for its host name
OffAllowList(h) == ~isAllowed(matcher, h) /\ ~isAllowed(matcher, Hostname(h))

Stored(id) == id \in Range(store) \/ id \in appendErrs \/ id \in Range(TraceIDs)

\* C1: in the forward proxy a CONNECT or plain request to a host that is not
\* on the allow-list is never intercepted: it is tunnelled or passed through
\* without a capture context, it gets the upstream's answer when there is
\* one, and no trace and no session id is ever recorded for it, whatever the
\* allow-listed requests running beside it do.
C1_OffAllowListNotCaptured ==
    \A r \in Slots :
        (mode = "forward" /\ req[r].pc # "idle" /\ OffAllowList(req[r].host)) =>
            /\ req[r].act # "mitm"
            /\ req[r].capture = NoCapture
            /\ ~Stored(NewID(r))
            /\ req[r].pc \notin {"addtrace", "addtrace_w", "count", "count_w"}
            /\ req[r].pc = "done" =>
                  req[r].out = (IF req[r].kind = "connect" THEN "relayed"
                                ELSE IF req[r].resp = NilResp THEN "gateway_error"
                                ELSE "response")

\* a request off the allow-list got its answer while the trace of an
\* allow-listed request was being recorded beside it
C1_Witness ==
    \E r, q \in Slots :
        /\ mode = "forward"
        /\ OffAllowList(req[r].host) /\ req[r].pc = "done" /\ req[r].out = "response"
        /\ ~OffAllowList(req[q].host) /\ NewID(q) \in Range(store)
        /\ req[q].pc = "addtrace_w"

\* the host name of h is on the allow-list, letter case ignored
HostnameAllowListed(h) == \E a \in AllowHosts : ToLower(a) = ToLower(Hostname(h))

\* C2: with an allow-list of host names, a CONNECT to host:port is
\* intercepted (MITM) if and only if the host name is on the allow-list,
\* letter case ignored; it is tunnelled only if it is not.
C2_ConnectInterceptsAllowListed ==
    \A r \in Slots :
        (req[r].kind = "connect" /\ req[r].act # "none"
           /\ \A a \in AllowHosts : a[2] = NoPort) =>
            (req[r].act = "mitm" <=> HostnameAllowListed(req[r].host))

\* the request had no upstream response and the recorder's own code decided
\* what the client got (inside a MITM'd tunnel goproxy answers by itself)
ForwardingFailed(r) ==
    /\ req[r].pc = "done"
    /\ req[r].resp = NilResp
    /\ req[r].act = "none"
    /\ req[r].out # "internal_error"

\* C3: a trace is stored only for a request whose upstream round trip gave a
\* response; a request whose forwarding failed is answered with a gateway
\* error and leaves no trace and no session id, in all three recorders.
C3_FailedForwardingIsGatewayError ==
    \A r \in Slots :
        /\ (Stored(NewID(r)) \/ NewID(r) \in Range(traces)) => req[r].resp = "ok"
        /\ ForwardingFailed(r) =>
              /\ req[r].out = "gateway_error"
              /\ ~Stored(NewID(r))
              /\ NewID(r) \notin Range(traces)

\* C8: once every capture that calls Session.AddTrace has returned, the
\* session's list holds the id of each of them.
C8_NoLostSessionID ==
    (run = "running" /\ \A r \in Slots : req[r].pc \in {"idle", "done"}) =>
        \A r \in Slots :
            (mode # "legacy" /\ req[r].out = "response" /\ req[r].capture # NoCapture) =>
                req[r].capture \in Range(TraceIDs)

\* C9: a recording run in which a store.Append has failed does not end
\* reporting success.
C9_AppendFailureSurfaced ==
    [][(run = "running" /\ appendErrs # {}) => run' # "ok"]_vars

NoBadLine == \A d \in Days : \A i \in 1..Len(files[d]) : ~files[d][i].bad

DistinctTimestamps ==
    \A i, j \in 1..Len(appended) : i # j => appended[i].ts # appended[j].ts

EmptyFilter(l) == l.ids = {} /\ l.since = NoTime /\ l.until = NoTime /\ l.limit = 0

Ascending(trs) == \A i, j \in 1..Len(trs) : i < j => trs[i].ts <= trs[j].ts

\* C4: after successful Appends of traces with distinct timestamps, of any
\* record size, List with an empty filter succeeds and returns exactly the
\* appended traces, each once, in ascending timestamp order.
C4_StoreRoundTrip ==
    (listed.op = "list" /\ EmptyFilter(listed) /\ NoBadLine
       /\ appended # <<>> /\ DistinctTimestamps) =>
        /\ ~listed.err
        /\ Len(listed.traces) = Len(appended)
        /\ {TraceLine(appended[i]) : i \in 1..Len(appended)} = Range(listed.traces)
        /\ Ascending(listed.traces)

\* C5: a List with Limit n > 0 that succeeds returns at most n traces, all
\* matching the id and since/until filters, in ascending timestamp order.
C5_ListRespectsLimit ==
    (listed.op = "list" /\ listed.limit > 0 /\ ~listed.err) =>
        /\ Len(listed.traces) <= listed.limit
        /\ \A i \in 1..Len(listed.traces) : Matches(listed.traces[i], listed)
        /\ Ascending(listed.traces)

\* C6 as claimed: whenever some partition file holds a line that does not
\* decode, List returns an error and no traces, whatever the filter.
C6_AnyBadLineFailsList ==
    (listed.op = "list" /\ ~NoBadLine) => (listed.err /\ listed.traces = <<>>)

\* decodable lines matching the filter that List scans before line i of day d
MatchingBefore(d, i, f) ==
    Cardinality({<<e, j>> \in Days \X (1..MaxAppend + MaxBad) :
                    /\ j <= Len(files[e])
                    /\ e < d \/ (e = d /\ j < i)
                    /\ ~files[e][j].bad
                    /\ Matches(files[e][j], f)})

\* C6 amended: List returns an error and no traces when a line that does
\* not decode is preceded, in scan order, by fewer traces matching the
\* filter than Limit, or when Limit is 0; an id or time filter never makes
\* List pass over such a line.
C6_ScannedBadLineFailsList ==
    \A d \in Days : \A i \in 1..Len(files[d]) :
        (listed.op = "list" /\ files[d][i].bad
           /\ (listed.limit = 0 \/ MatchingBefore(d, i, listed) < listed.limit)) =>
            (listed.err /\ listed.traces = <<>>)

\* a List with an id filter and a Limit of 2 failed on a malformed line that
\* follows a matching trace in the same file
C6_Witness ==
    \E d \in Days :
        /\ listed.op = "list" /\ listed.limit = 2 /\ listed.ids # {}
        /\ Len(files[d]) >= 2
        /\ ~files[d][1].bad /\ Matches(files[d][1], listed) /\ ~TooLong(files[d][1])
        /\ files[d][2].bad
        /\ listed.err

InCritical(g) == app[g].pc \in {"open", "write", "write2", "unlock"}

\* the chunks of a file are whole lines (head then tail of one call), but
\* for a last head whose writer is still between its two writes
RECURSIVE WholeLines(_, _)
WholeLines(cs, d) ==
    IF cs = <<>> THEN TRUE
    ELSE IF Len(cs) = 1
           THEN cs[1][2] = "head" /\ app[cs[1][1]].pc = "write2" /\ app[cs[1][1]].day = d
    ELSE /\ cs[1][2] = "head"
         /\ cs[2] = <<cs[1][1], "tail">>
         /\ WholeLines(SubSeq(cs, 3, Len(cs)), d)

Chunks(g, d) == {i \in 1..Len(disk[d]) : disk[d][i][1] = g}

IsPrefix(s, t) == Len(s) <= Len(t) /\ SubSeq(t, 1, Len(s)) = s

\* C7: concurrent Appends write one at a time: every file is always a
\* sequence of whole newline-terminated lines (plus the part the lock holder
\* has written so far), every Append that returned nil left exactly one line
\* in its own day file and none elsewhere, and what is in a file is never
\* changed, only extended.
C7_AppendsAreSerialized ==
    /\ [](/\ \A g, h \in Writers : (InCritical(g) /\ InCritical(h)) => g = h
          /\ \A d \in Days : WholeLines(disk[d], d)
          /\ \A g \in Writers : \A d \in Days :
                (app[g].pc \in {"unlock", "done"} /\ ~app[g].err) =>
                    Cardinality(Chunks(g, d)) = (IF d = app[g].day THEN 2 ELSE 0))
    /\ [][\A d \in Days : IsPrefix(disk[d], disk'[d])]_vars

\* all writers have returned nil and two of them wrote to the same day file
C7_Witness ==
    /\ \A g \in Writers : app[g].pc = "done" /\ ~app[g].err
    /\ \E g, h \in Writers : g # h /\ app[g].day = app[h].day

\* C10: two calls of Key whose four inputs are structurally identical
\* (whatever the addresses, the nil-ness of an empty slice and the map
\* iteration order) return the same key and the same params hash; this
\* includes inputs with no sampling field set.
C10_KeyDeterministic ==
    (call.n = 2 /\ Structure(call.a) = Structure(call.b)) => call.ra = call.rb

\* two calls on different Go values of the same inputs, no sampling field
\* set: another params struct, a nil Stop against an empty one, another map
\* order
C10_Witness ==
    /\ call.n = 2
    /\ call.a.params.addr # 0
    /\ call.a.params.addr # call.b.params.addr
    /\ call.a.params.Stop.isNil # call.b.params.Stop.isNil
    /\ call.a.order # call.b.order
    /\ DerefParams(call.a.params) = <<"params", <<>>, <<>>, <<>>, <<>>>>
    /\ call.ra = call.rb
    /\ call.ra.hash # <<>>

\* C11: two calls of Key whose inputs differ in exactly one of provider,
\* model, system prompt or one sampling field (temperature, top-p, max
\* output tokens, stop sequences) hash different serializations and return
\* different keys and different params hashes.
C11_KeySensitive ==
    call.n = 3 => (call.ra.key # call.rb.key /\ call.ra.hash # call.rb.hash)

\* the two calls differ only in the temperature, unset against 0
C11_Witness ==
    /\ call.n = 3
    /\ call.a.params.addr # 0 /\ call.b.params.addr # 0
    /\ call.a.params.Temperature = NilPtr
    /\ call.b.params.Temperature.addr # 0 /\ call.b.params.Temperature.val = 0
    /\ Slugify(call.a.model) = Slugify(call.b.model)
    /\ call.ra.key # call.rb.key

ViolationsOf(i) ==
    {j \in 1..Len(evald.violations) : evald.violations[j].PolicyID = policies[i].ID}

\* C13: a policy of check type assertions with min_pass_rate m gives a
\* violation for a case exactly when the aggregate pass rate of the case is
\* below m; a pass rate of 1.0 against min_pass_rate 1.0 gives none.
C13_AssertionsViolationIffBelow ==
    evald.done =>
        \A i \in 1..Len(policies) :
            (policies[i].Check.Type = "assertions"
             /\ matchesScope(policies[i].Scope, evald.c, evald.res)) =>
                (ViolationsOf(i) # {}
                    <=> RateLess(evald.res.Aggregates.PassRate,
                                 policies[i].Check.MinPassRate.val))

\* the scope semantics as stated: no scope matches every case; otherwise
\* every non-empty filter kind shares a value with the case's tags, the
\* case id, the result's provider
ScopeShares(sc, c, res) ==
    \/ sc.isNil
    \/ /\ sc.Tags = {} \/ sc.Tags \cap c.Tags # {}
       /\ sc.IDs = {} \/ c.ID \in sc.IDs
       /\ sc.Providers = {} \/ res.Provider \in sc.Providers

\* the position of the policy that violation j names
PolicyIndex(j) ==
    CHOOSE i \in 1..Len(policies) : policies[i].ID = evald.violations[j].PolicyID

\* C15: Evaluate gives at most one violation per configured policy, none
\* for a policy whose scope does not match the case, and the violations
\* come in the order the policies are declared.
C15_EvaluateScopedOrdered ==
    evald.done =>
        LET vs == evald.violations IN
        /\ \A j \in 1..Len(vs) : \E i \in 1..Len(policies) : policies[i].ID = vs[j].PolicyID
        /\ \A j, k \in 1..Len(vs) : j < k => PolicyIndex(j) < PolicyIndex(k)
        /\ \A i \in 1..Len(policies) :
              ~ScopeShares(policies[i].Scope, evald.c, evald.res) => ViolationsOf(i) = {}

\* a call where a policy whose check is violated is left out for its scope
\* (one filter kind matches, another does not) and the other policy's
\* violation is returned
C15_Witness ==
    /\ evald.done
    /\ Len(policies) = 2
    /\ Len(evald.violations) = 1
    /\ \E i \in 1..2 :
          /\ policies[i].Scope.Tags \cap evald.c.Tags # {}
          /\ ~(evald.res.Provider \in policies[i].Scope.Providers)
          /\ policies[i].Scope.Providers # {}
          /\ evaluatePolicy(policies[i], evald.res, evald.d) # NoViolation
          /\ ViolationsOf(i) = {}

\* C16: for a configuration that passed validation the policy engine never
\* emits its own "unsupported check" or "... is required" violations, and a
\* configuration that failed validation has none of its policies applied.
C16_ValidatedConfigNeverMisconfigured ==
    /\ loaded = "error" => ~evald.done
    /\ evald.done =>
          \A j \in 1..Len(evald.violations) :
              evald.violations[j].Message
                  \notin {"unsupported check", "max_p95 is required", "p95_ms is required"}

\* C14: the status of a case is the highest severity among its violations
\* (error above warn above none), whatever their order, and BuildSummary
\* counts each case in exactly one of Passed, Warned, Failed, so that the
\* three counts add up to Total.
C14_StatusIsMaxSeverity ==
    /\ \A i \in 1..Len(summaries) :
          LET vs == summaries[i].Violations
              anyError == \E j \in 1..Len(vs) : vs[j].Severity = "error"
              anyWarn == \E j \in 1..Len(vs) : vs[j].Severity = "warn"
              want == IF anyError THEN "error" ELSE IF anyWarn THEN "warn" ELSE ""
          IN  /\ maxSeverity(vs) = want
              /\ statuses[i] = (CASE want = "error" -> "FAIL" [] want = "warn" -> "WARN"
                                  [] OTHER -> "PASS")
    /\ summary.built =>
          LET n == Len(summaries)
              errs == {i \in 1..n : \E j \in 1..Len(summaries[i].Violations) :
                                       summaries[i].Violations[j].Severity = "error"}
              warns == {i \in 1..n : \E j \in 1..Len(summaries[i].Violations) :
                                        summaries[i].Violations[j].Severity = "warn"} \ errs
          IN  /\ summary.Total = n
              /\ summary.Failed = Cardinality(errs)
              /\ summary.Warned = Cardinality(warns)
              /\ summary.Passed = n - Cardinality(errs) - Cardinality(warns)
              /\ summary.Passed + summary.Warned + summary.Failed = summary.Total

\* a summary of two cases: one whose violations are an error followed by a
\* warn, one with a warn only
C14_Witness ==
    /\ summary.built
    /\ summary.Failed = 1
    /\ summary.Warned = 1
    /\ \E i \in 1..Len(summaries) :
          /\ Len(summaries[i].Violations) = 2
          /\ summaries[i].Violations[1].Severity = "error"
          /\ summaries[i].Violations[2].Severity = "warn"

\* C17: applying the Redactor a second time to an already-redacted trace
\* changes no message content and no assistant text and returns no fired
\* rule, for every rule set, the presets included.
C17_RedactionIdempotent ==
    rcount = 2 => (rtrace = rbefore /\ rapplied = <<>>)

\* the values the request carried under a sensitive header name
SensitiveValues ==
    UNION {{hreq[key][i] : i \in 1..Len(hreq[key])} :
              key \in {k \in DOMAIN hreq :
                          HeaderLower(k) \in {"authorization", "x-api-key", "api-key"}}}

\* the header values a persisted trace holds
PersistedHeaderValues(tr) ==
    IF tr.recorder = "legacy"
      THEN UNION {{tr.Request.Headers[key][i] : i \in 1..Len(tr.Request.Headers[key])} :
                     key \in DOMAIN tr.Request.Headers}
      ELSE {}

\* C18: no persisted trace holds the clear-text value of a sensitive request
\* header (Authorization, x-api-key, api-key): every recorder masks the
\* value or leaves the header out, with the Redactor enabled or not.
C18_SensitiveHeadersMasked ==
    \A j \in 1..Len(hstored) :
        /\ PersistedHeaderValues(hstored[j]) \cap SensitiveValues = {}
        /\ hstored[j].recorder # "legacy" => "Headers" \notin DOMAIN hstored[j]

\* the legacy proxy persisted a request that carried an Authorization and an
\* x-api-key header, both masked, next to a header kept as it was
C18_Witness ==
    /\ Len(hstored) = 1
    /\ hstored[1].recorder = "legacy"
    /\ {"Authorization", "x-api-key", "Content-Type"} \subseteq DOMAIN hreq
    /\ hstored[1].Request.Headers["Authorization"] = <<"[REDACTED]">>
    /\ hstored[1].Request.Headers["x-api-key"] = <<"[REDACTED]">>
    /\ hstored[1].Request.Headers["Content-Type"] = <<"application/json">>

\* C19: with a stop-after limit N > 0 set on the ProxyRecorder, once N
\* captures have completed the shutdown is started in the end and done is
\* closed in the end; the handler that recorded the Nth trace does not wait
\* for the shutdown: its next step is always open to it and its response is
\* delivered, also when several captures cross the limit together.
C19_StopAfterShutsDown ==
    /\ []((stopAfter > 0 /\ recorded >= stopAfter) => <>(server = "shutdown" /\ done))
    /\ \A h \in Handlers :
          /\ [](conn[h].counted => <>(conn[h].pc = "delivered"))
          /\ [](conn[h].pc = "respond" => ENABLED Respond(h))

\* two captures crossed the limit together, each started a Stop of its
\* own, done is closed and every response was delivered
C19_Witness ==
    /\ stopAfter > 0
    /\ recorded > stopAfter
    /\ Len(stopTasks) >= 2
    /\ \E h, g \in Handlers : h # g /\ conn[h].reached /\ conn[g].reached
    /\ done
    /\ \A h \in Handlers : conn[h].pc = "delivered"

\* C20: when `regrada record` runs with --stop-after N (N > 0), the
\* recorder in use stops after N traces have been recorded, in forward and
\* in reverse proxy mode.
C20_RecordStopsAfterN ==
    []((recordStopAfter > 0 /\ recorded >= recordStopAfter) => <>(server # "serving"))

\* C21: stopping the proxy drains: in both recorders a capture in flight
\* when Stop is called gets its response delivered; a connection is cut only
\* after a Stop has waited for its whole timeout.
C21_StopDrains ==
    \A h \in Handlers :
        conn[h].pc = "cut" => \E k \in 1..Len(stopTasks) : stopTasks[k] = "timedout"

\* C22: `regrada test` ends with the missing-baseline code 4 only when no
\* snapshot exists for the case id and baseline key it looked up; a file
\* that cannot be read or holds no JSON ends it with another code.
C22_MissingBaselineOnly ==
    (command.name = "test" /\ command.exit = 4) =>
        SnapshotPath(projectCfg.SnapshotDir, caseList[command.i].ID, command.key)
            \notin DOMAIN snapshots

\* C23: when a provider call failed (an error or a timeout) while a case of
\* `regrada test` ran, the command ends with the evaluation-error code 5.
C23_ProviderFailureIsEvaluationError ==
    (command.name = "test" /\ command.providerErr /\ command.exit # NoExit) =>
        command.exit = 5

\* C30: a test run that directly follows a successful baseline run on the
\* same configuration and cases never ends with the missing-baseline code:
\* the key of its Load is the key of the Save.
C30_TestFindsSavedBaseline ==
    (command.name = "test" /\ command.after = "baseline ok") => command.exit # 4

\* the test run after a successful baseline run went through every case and
\* ended on the policies
C30_Witness ==
    /\ command.name = "test"
    /\ command.after = "baseline ok"
    /\ Len(caseList) = MaxCases
    /\ Len(command.summaries) = MaxCases
    /\ command.exit \in {0, 2}

\* C24: after Session.Finalize the end time is set, the id list is in
\* ascending order with no id twice and no empty id, and it holds the same
\* non-empty ids as before; a second Finalize leaves the list as it is.
C24_FinalizeSortsAndDedups ==
    session.finalizes > 0 =>
        /\ session.EndTime # ZeroTime
        /\ \A i, j \in 1..Len(session.TraceIDs) :
              i < j => session.TraceIDs[i] < session.TraceIDs[j]
        /\ {session.TraceIDs[i] : i \in 1..Len(session.TraceIDs)}
              = {session.before[i] : i \in 1..Len(session.before)} \ {EmptyID}
        /\ session.finalizes = 2 => session.TraceIDs = session.before

\* a list with a repeated id, an empty id and ids out of order was
\* finalized twice
C24_Witness ==
    /\ session.finalizes = 2
    /\ Len(session.TraceIDs) = MaxIDs
    /\ savedSession.saved
    /\ savedSession.TraceIDs # session.TraceIDs
    /\ Len(savedSession.TraceIDs) = MaxAdds

\* the text each response shape yields, in the order of priority; a shape
\* that is not there yields no text
ShapeTexts(body) ==
    LET payload == body.json
        choices == Get(payload, "choices")
        choice == IF choices.t = "array" /\ Len(choices.v) > 0 /\ choices.v[1].t = "object"
                    THEN choices.v[1] ELSE Obj(<<>>)
        message == IF Get(choice, "message").t = "object" THEN Get(choice, "message")
                   ELSE Obj(<<>>)
        TextOf(x) == IF x.t = "string" THEN x.v ELSE <<>>
    IN  <<TextOf(Get(message, "content")), TextOf(Get(choice, "text")),
          TextOf(Get(payload, "content")),
          IF Get(payload, "content").t = "array"
            THEN extractContentBlocks(Get(payload, "content").v) ELSE <<>>>>

\* C25: parseResponse returns the text of the first shape, in the order
\* choices[0].message.content, choices[0].text, content as a string,
\* content as a list of blocks, that yields a text that is not empty, and
\* the empty text only when none does or the body is no JSON object.
C25_FirstNonEmptyShape ==
    parsed.done =>
        LET body == parsed.responseBody
            texts == IF body.json.t = "object" THEN ShapeTexts(body) ELSE <<>>
            found == {i \in 1..Len(texts) : texts[i] # <<>>}
        IN  parsed.trace.AssistantText =
               IF found = {} THEN <<>>
               ELSE texts[CHOOSE i \in found : \A j \in found : i <= j]

\* C26: in every recorder the messages of a trace come from `messages`
\* when it yields one, else from `prompt`, else from the whole raw body as
\* one user message: a trace of a request with a body has a message.
C26_RequestFallbackChain ==
    parsed.done =>
        LET p == parseRequest(parsed.requestBody) IN
        /\ Len(parsed.requestBody.raw) > 0 => Len(parsed.trace.Messages) > 0
        /\ Len(p.messages) > 0 => parsed.trace.Messages = p.messages
        /\ (Len(p.messages) = 0 /\ Len(parsed.requestBody.raw) > 0) =>
              parsed.trace.Messages = <<[Role |-> <<"user">>, Content |-> parsed.requestBody.raw]>>

\* C27: every id in the session's trace-id list identifies a trace that
\* is in the trace store, also after captures whose Append returned an
\* error.
C27_SessionIDsAreStored ==
    \A i \in 1..Len(TraceIDs) : \E j \in 1..Len(store) : store[j] = TraceIDs[i]

\* C28: once runRecord has stopped the recorder, finalized and saved the
\* session, no handler stores a trace or adds an id: every trace stored in
\* the run is listed in the saved session file, whose id list is the
\* session's, in ascending order with no id twice.
C28_NoCaptureAfterFinalize ==
    savedSession.saved =>
        /\ \A h \in Handlers :
              conn[h].counted => \E i \in 1..Len(savedSession.TraceIDs) :
                                    savedSession.TraceIDs[i] = h
        /\ session.TraceIDs = savedSession.TraceIDs
        /\ \A i, j \in 1..Len(savedSession.TraceIDs) :
              i < j => savedSession.TraceIDs[i] < savedSession.TraceIDs[j]

\* C29: with redaction enabled, no field of a trace that is stored holds
\* text that a configured pattern matches: no message content, not the
\* assistant text, not the raw response bytes.
C29_NoPatternInPersistedTrace ==
    rcount = 1 =>
        \A k \in 1..Len(redactor) :
            /\ \A i \in 1..Len(rtrace.Messages) :
                  ~MatchString(redactor[k].regex, rtrace.Messages[i])
            /\ ~MatchString(redactor[k].regex, rtrace.AssistantText)
            /\ ~MatchString(redactor[k].regex, rtrace.Raw)

====
